---- MODULE Spec2Model ----
(***************************************************************************)
(* Quote-master: the entitlement gate (free trial / subscription), the     *)
(* PDF generation flow of the client and the quote routes of the server.   *)
(*                                                                         *)
(* Server handlers are modelled from server/routes.ts and the storage      *)
(* layer (DatabaseStorage); the client flow from lib/pdfGenerator.         *)
(***************************************************************************)
EXTENDS Integers, Sequences, FiniteSets, TLC

VARIABLES
  users,     \* the users table: id -> row, or NoRow
  dbState,   \* "up", "down" (a storage call throws) or "unset" (the stub db of db.ts)
  resp,      \* the operation handled last and the response it got
  hist,      \* history: per user, whether the row is a fresh trial row and its tracked requests
  reqs,      \* in-flight POST /api/track-pdf-download requests (one per slot)
  calls,     \* history: per user, the number of incrementFreeDownloads calls made
  flow,      \* the client's generateQuotePDF call
  quotes,    \* the quote_drafts table: id -> row, or NoRow
  items,     \* the quote_items table: id -> row, or NoRow
  clock,     \* the server's date: month and day of the month
  companies, \* the rows of the companies table
  creates,   \* in-flight POST /api/quotes requests (one per slot)
  editor,    \* the quote editor's quoteData: items, discount, template_variant
  doc,       \* what the document generator computed and emitted last
  stripe     \* Stripe's side: the customers and subscriptions created, per user

vars == <<users, dbState, resp, hist, reqs, calls, flow, quotes, items,
          clock, companies, creates, editor, doc, stripe>>

----------------------------------------------------------------------------
(* Bounds *)

MaxFdu == 2        \* largest free_downloads_used value the model writes
MaxSlots == 2      \* concurrent track-pdf-download requests
MaxDrafts == 3     \* rows the quote_drafts table holds at a time
MaxCustomers == 3  \* customers the Stripe account holds
MaxDay == 2        \* days of a month the clock goes through
MaxMonth == 2      \* months the clock goes through
MaxItems == 2      \* line items the editor holds
MantissaBits == 6  \* significand bits of a number where rounding is modelled (a
                   \* JavaScript number has 53)

----------------------------------------------------------------------------
(* Data *)

UserIds == {"u1", "u2"}

\* users.role: "user, admin, banned, deleted"; the column is nullable and free text,
\* "ADMIN" stands for a spelling that differs from 'admin' in case only.
Roles == {"user", "admin", "ADMIN", "banned", "deleted"}

NullStr == "NULL"

\* SQL NULL of the nullable integer column free_downloads_used
NullInt == -1

FduValues == {NullInt} \cup (0..MaxFdu)

NoRow == [absent |-> TRUE]

CusId(u) == IF u = "u1" THEN "cus_u1" ELSE "cus_u2"

SubId(u) == IF u = "u1" THEN "sub_u1" ELSE "sub_u2"

\* The row an insert creates: the column defaults of the users table.
DefaultRow(role, cus, sub) ==
  [ role |-> role,
    freeDownloadsUsed |-> 0,
    hasActiveSubscription |-> FALSE,
    stripeCustomerId |-> cus,
    stripeSubscriptionId |-> sub ]

\* String.prototype.toLowerCase on the role strings of the model
ToLowerCase(s) == IF s = "ADMIN" THEN "admin" ELSE s

\* (user.role || '')
OrEmpty(s) == IF s = NullStr THEN "" ELSE s

\* `${users.freeDownloadsUsed} + 1` evaluated by the database (NULL + 1 is NULL)
SqlPlusOne(n) == IF n = NullInt THEN NullInt ELSE n + 1

----------------------------------------------------------------------------
(* JavaScript numbers that are not whole: binary floating point, every operation  *)
(* rounded to nearest, ties to even. A number is m * 2^e, m odd or 0, with         *)
(* |m| < 2^MantissaBits. Range limits (overflow, subnormals) are not modelled.     *)

RECURSIVE Pow2(_)
Pow2(n) == IF n = 0 THEN 1 ELSE 2 * Pow2(n - 1)

RECURSIVE BitLength(_)
BitLength(n) == IF n = 0 THEN 0 ELSE 1 + BitLength(n \div 2)

Abs(n) == IF n < 0 THEN 0 - n ELSE n

Sign(n) == IF n < 0 THEN 0 - 1 ELSE 1

FloatZero == [m |-> 0, e |-> 0]

\* m * 2^e with m odd
RECURSIVE Normalize(_, _)
Normalize(m, e) ==
  IF m = 0 THEN FloatZero
  ELSE IF m % 2 = 0 THEN Normalize(m \div 2, e + 1)
  ELSE [m |-> m, e |-> e]

\* The nearest number with MantissaBits significand bits, ties to even
RoundToNearestEven(m, e) ==
  LET len == BitLength(Abs(m))
      shift == len - MantissaBits
      q == Abs(m) \div Pow2(shift)
      r == Abs(m) % Pow2(shift)
      half == Pow2(shift - 1)
      up == IF r > half \/ (r = half /\ q % 2 = 1) THEN 1 ELSE 0
  IN IF m = 0 THEN FloatZero
     ELSE IF shift <= 0 THEN Normalize(m, e)
     ELSE Normalize(Sign(m) * (q + up), e + shift)

\* A whole number as a number
FloatOf(n) == RoundToNearestEven(n, 0)

\* a * b
FloatMul(a, b) == RoundToNearestEven(a.m * b.m, a.e + b.e)

\* a / b for b # 0: the quotient with two guard bits and a sticky bit, rounded
FloatDiv(a, b) ==
  LET k == MantissaBits + 2 + BitLength(Abs(b.m))
      num == Abs(a.m) * Pow2(k)
      q == num \div Abs(b.m)
      sticky == IF num % Abs(b.m) # 0 THEN 1 ELSE 0
  IN RoundToNearestEven(Sign(a.m) * Sign(b.m) * (2 * q + sticky), a.e - b.e - k - 1)

\* Both numbers over the smaller exponent
Aligned(a, b) ==
  LET e == IF a.e <= b.e THEN a.e ELSE b.e
  IN [a |-> a.m * Pow2(a.e - e), b |-> b.m * Pow2(b.e - e), e |-> e]

\* a + b and a - b
FloatAdd(a, b) ==
  IF a.m = 0 THEN b ELSE IF b.m = 0 THEN a
  ELSE RoundToNearestEven(Aligned(a, b).a + Aligned(a, b).b, Aligned(a, b).e)

FloatSub(a, b) == FloatAdd(a, [b EXCEPT !.m = 0 - @])

\* x || 0 for a number x that need not be whole
FloatOrZero(x) == IF x.m = 0 THEN FloatZero ELSE x

\* a <= b
FloatLeq(a, b) ==
  IF a.m = 0 THEN b.m >= 0 ELSE IF b.m = 0 THEN a.m <= 0
  ELSE Aligned(a, b).a <= Aligned(a, b).b

----------------------------------------------------------------------------
(* Storage (DatabaseStorage) *)

\* The message of the error a storage call throws, "" when it does not throw.
StorageError(db) ==
  IF db = "up" THEN ""
  ELSE IF db = "unset" THEN "DATABASE_URL is not set"
  ELSE "connection error"

\* getUser: the row, or undefined
GetUser(rows, id) == rows[id]

\* Mutant: the new value computed from the row the handler read (0) instead of in place
IncrementFreeDownloads_fromStaleRead(rows, id) ==
  IF rows[id] = NoRow THEN rows
  ELSE [rows EXCEPT ![id].freeDownloadsUsed = 1]

\* incrementFreeDownloads: one UPDATE ... SET free_downloads_used = free_downloads_used + 1
IncrementFreeDownloads(rows, id) ==
  IF rows[id] = NoRow THEN rows
  ELSE [rows EXCEPT ![id].freeDownloadsUsed = SqlPlusOne(@)]

\* updateSubscriptionStatus
UpdateSubscriptionStatus(rows, id, active) ==
  IF rows[id] = NoRow THEN rows
  ELSE [rows EXCEPT ![id].hasActiveSubscription = active]

\* .set({ ...data }): the columns named by data are overwritten
ApplyPartial(row, data) ==
  [k \in DOMAIN row |-> IF k \in DOMAIN data THEN data[k] ELSE row[k]]

\* updateUser
UpdateUser(rows, id, data) ==
  IF rows[id] = NoRow THEN rows
  ELSE [rows EXCEPT ![id] = ApplyPartial(@, data)]

\* The userData replitAuth passes to upsertUser, with the updatedAt of the set clause:
\* identity columns of the claims, none of which the model's rows hold
UpsertData(id) ==
  [id |-> id, email |-> id, firstName |-> id, lastName |-> id,
   profileImageUrl |-> id, updatedAt |-> "now"]

\* Mutant: on conflict the row is replaced by a fresh one
UpsertUser_replacesRow(rows, id) ==
  [rows EXCEPT ![id] = DefaultRow("user", NullStr, NullStr)]

\* upsertUser: insert with the column defaults, or on conflict set the columns of
\* userData and updatedAt
UpsertUser(rows, id) ==
  IF rows[id] = NoRow
    THEN [rows EXCEPT ![id] = DefaultRow("user", NullStr, NullStr)]
    ELSE [rows EXCEPT ![id] = ApplyPartial(@, UpsertData(id))]

----------------------------------------------------------------------------
(* requireSubscriptionOrFreeTrial, track-pdf-download, check-pdf-access *)

\* Mutant: the free-trial test off by one (freeDownloadsUsed <= 1 lets through)
RequireSubscriptionOrFreeTrial_offByOne(db, user) ==
  IF StorageError(db) # ""
    THEN IF StorageError(db) = "DATABASE_URL is not set"
           THEN [next |-> TRUE]
           ELSE [next |-> FALSE, status |-> 500,
                 body |-> [message |-> "Failed to check subscription status"]]
  ELSE IF user = NoRow
    THEN [next |-> FALSE, status |-> 404, body |-> [message |-> "User not found"]]
  ELSE IF ToLowerCase(OrEmpty(user.role)) = "admin"
    THEN [next |-> TRUE]
  ELSE IF user.hasActiveSubscription
    THEN [next |-> TRUE]
  ELSE IF user.freeDownloadsUsed \in {0, 1}
    THEN [next |-> TRUE]
  ELSE [next |-> FALSE, status |-> 402,
        body |-> [message |-> "Subscription required",
                  code |-> "SUBSCRIPTION_REQUIRED",
                  freeDownloadsUsed |-> user.freeDownloadsUsed]]

\* The middleware's decision, given the outcome of getUser: next() or a response.
RequireSubscriptionOrFreeTrial(db, user) ==
  IF StorageError(db) # ""
    THEN IF StorageError(db) = "DATABASE_URL is not set"
           THEN [next |-> TRUE]
           ELSE [next |-> FALSE, status |-> 500,
                 body |-> [message |-> "Failed to check subscription status"]]
  ELSE IF user = NoRow
    THEN [next |-> FALSE, status |-> 404, body |-> [message |-> "User not found"]]
  ELSE IF ToLowerCase(OrEmpty(user.role)) = "admin"
    THEN [next |-> TRUE]
  ELSE IF user.hasActiveSubscription
    THEN [next |-> TRUE]
  ELSE IF user.freeDownloadsUsed = 0
    THEN [next |-> TRUE]
  ELSE [next |-> FALSE, status |-> 402,
        body |-> [message |-> "Subscription required",
                  code |-> "SUBSCRIPTION_REQUIRED",
                  freeDownloadsUsed |-> user.freeDownloadsUsed]]

\* Mutant: the handler counts every first download, subscribed or not
TrackIncrements_ignoresSubscription(user) ==
  user # NoRow /\ user.freeDownloadsUsed = 0

\* POST /api/track-pdf-download after the middleware: does the handler call
\* incrementFreeDownloads for the row it read?
TrackIncrements(user) ==
  user # NoRow /\ ~user.hasActiveSubscription /\ user.freeDownloadsUsed = 0

\* The handler's response, given the outcome of its getUser.
TrackResponse(db, user) ==
  IF StorageError(db) # ""
    THEN [status |-> 500, body |-> [message |-> "Failed to track PDF download"]]
  ELSE IF user = NoRow
    THEN [status |-> 404, body |-> [message |-> "User not found"]]
  ELSE IF TrackIncrements(user)
    THEN [status |-> 200,
          body |-> [success |-> TRUE, message |-> "Free trial used",
                    freeDownloadsUsed |-> 1]]
  ELSE [status |-> 200,
        body |-> [success |-> TRUE, message |-> "PDF generated successfully",
                  freeDownloadsUsed |-> user.freeDownloadsUsed]]

\* GET /api/check-pdf-access
CheckPdfAccessResponse(db, user) ==
  IF StorageError(db) # ""
    THEN IF StorageError(db) = "DATABASE_URL is not set"
           THEN [status |-> 200,
                 body |-> [canGenerate |-> TRUE, hasActiveSubscription |-> TRUE,
                           freeDownloadsUsed |-> 0, isFreeTrial |-> FALSE]]
           ELSE [status |-> 500, body |-> [message |-> "Failed to check PDF access"]]
  ELSE IF user = NoRow
    THEN [status |-> 404, body |-> [message |-> "User not found"]]
  ELSE IF ToLowerCase(OrEmpty(user.role)) = "admin"
    THEN [status |-> 200,
          body |-> [canGenerate |-> TRUE, hasActiveSubscription |-> TRUE,
                    freeDownloadsUsed |-> 0, isFreeTrial |-> FALSE]]
  ELSE [status |-> 200,
        body |-> [canGenerate |-> (user.hasActiveSubscription
                                    \/ user.freeDownloadsUsed = 0),
                  hasActiveSubscription |-> user.hasActiveSubscription,
                  freeDownloadsUsed |-> user.freeDownloadsUsed,
                  isFreeTrial |-> (user.freeDownloadsUsed = 0
                                    /\ ~user.hasActiveSubscription)]]

\* The whole POST /api/track-pdf-download request run without interleaving:
\* the middleware, then the handler. Gives the response and the users table after it.
TrackRequest(db, rows, id) ==
  LET gate == RequireSubscriptionOrFreeTrial(db, GetUser(rows, id))
      user == GetUser(rows, id)
  IN IF ~gate.next
       THEN [status |-> gate.status, body |-> gate.body, rows |-> rows]
       ELSE [status |-> TrackResponse(db, user).status,
             body |-> TrackResponse(db, user).body,
             rows |-> IF StorageError(db) = "" /\ TrackIncrements(user)
                        THEN IncrementFreeDownloads(rows, id)
                        ELSE rows]

----------------------------------------------------------------------------
(* History kept for the properties *)

\* The state a trial starts from: a row of a non-admin with nothing used, not subscribed
StartState(row) ==
  /\ row # NoRow
  /\ ToLowerCase(OrEmpty(row.role)) # "admin"
  /\ row.freeDownloadsUsed = 0
  /\ ~row.hasActiveSubscription

NoHist(row) == [fresh |-> StartState(row), tracks |-> 0]

\* After an operation other than a generation request: a row it changed starts over
HistAfter(rowsAfter) ==
  [u \in UserIds |-> IF rowsAfter[u] = users[u] THEN hist[u] ELSE NoHist(rowsAfter[u])]

\* After a track request of user id that got the answer status
HistAfterTrack(id, status) ==
  IF hist[id].fresh /\ status \in {200, 402} /\ hist[id].tracks < 2
    THEN [hist EXCEPT ![id].tracks = @ + 1]
    ELSE hist

----------------------------------------------------------------------------
(* POST /webhook/stripe *)

\* Stripe ids in events: those of u1 (see Init) and ids no user has
CustomerIds == {CusId("u1"), "cus_x"}

SubscriptionIds == {SubId("u1"), "sub_x"}

SubscriptionStatuses == {"active", "trialing", "canceled"}

\* The events the model delivers: subscription events carry the customer and the
\* status, invoice events the subscription id (or none)
StripeEvents ==
  [ type : {"customer.subscription.created", "customer.subscription.updated",
            "customer.subscription.deleted"},
    customer : CustomerIds,
    status : SubscriptionStatuses ]
  \cup
  [ type : {"invoice.payment_succeeded"},
    subscription : SubscriptionIds \cup {NullStr} ]

\* users.find(u => u.stripeCustomerId === subscription.customer) over listUsers()
FindByCustomer(rows, cus) ==
  {u \in UserIds : rows[u] # NoRow /\ rows[u].stripeCustomerId = cus}

\* users.find(u => u.stripeSubscriptionId === invoice.subscription) over listUsers()
FindBySubscription(rows, sub) ==
  {u \in UserIds : rows[u] # NoRow /\ rows[u].stripeSubscriptionId = sub}

\* The event switch: the users table after the event was handled. A storage error is
\* caught and logged inside the case.
WebhookRows(db, rows, ev) ==
  IF ev.type \in {"customer.subscription.created", "customer.subscription.updated"}
    THEN IF StorageError(db) # "" \/ FindByCustomer(rows, ev.customer) = {}
           THEN rows
           ELSE UpdateSubscriptionStatus(rows,
                  CHOOSE u \in FindByCustomer(rows, ev.customer) : TRUE,
                  ev.status \in {"active", "trialing"})
  ELSE IF ev.type = "invoice.payment_succeeded"
    THEN IF ev.subscription = NullStr \/ StorageError(db) # ""
              \/ FindBySubscription(rows, ev.subscription) = {}
           THEN rows
           ELSE UpdateSubscriptionStatus(rows,
                  CHOOSE u \in FindBySubscription(rows, ev.subscription) : TRUE,
                  TRUE)
  ELSE rows

\* The response: 400 when constructEvent rejects the signature, else {received: true}
WebhookResponse(sigOk) ==
  IF ~sigOk THEN [status |-> 400, body |-> [message |-> "Webhook Error"]]
  ELSE [status |-> 200, body |-> [received |-> TRUE]]

----------------------------------------------------------------------------
(* PUT /api/admin/users/:id *)

\* Request bodies: any subset of columns may be sent; the model sends bodies that
\* name at most one of the entitlement columns.
AdminBodies ==
  {[role |-> r] : r \in Roles \cup {NullStr}}
  \cup {[freeDownloadsUsed |-> n] : n \in FduValues}
  \cup {[hasActiveSubscription |-> b] : b \in BOOLEAN}
  \cup {[updatedAt |-> "ignored"]}

\* The :id of the requests the model sends
AdminTargets == {"u1"}

\* delete updateData.id / createdAt / updatedAt
AdminUpdateData(body) ==
  [k \in (DOMAIN body) \ {"id", "createdAt", "updatedAt"} |-> body[k]]

\* adminUser?.role !== 'admin'
AdminAccessRequired(adminUser) ==
  adminUser = NoRow \/ adminUser.role # "admin"

AdminUpdateRows(db, rows, admin, id, body) ==
  IF StorageError(db) # "" \/ AdminAccessRequired(GetUser(rows, admin))
    THEN rows
    ELSE UpdateUser(rows, id, AdminUpdateData(body))

AdminUpdateResponse(db, rows, admin) ==
  IF StorageError(db) # ""
    THEN [status |-> 500, body |-> [message |-> "Failed to update user"]]
  ELSE IF AdminAccessRequired(GetUser(rows, admin))
    THEN [status |-> 403, body |-> [message |-> "Admin access required"]]
  ELSE [status |-> 200, body |-> [updated |-> TRUE]]

----------------------------------------------------------------------------
(* The server's operations on users, each request handled without interleaving *)

NoRequest == [op |-> "none"]

IdleSlots == [s \in 1..MaxSlots |-> [pc |-> "idle"]]

NoCalls == [u \in UserIds |-> [base |-> 0, n |-> 0]]

IdleFlow == [pc |-> "idle"]

NoQuotes == <<>>

\* The parts of the state a specification does not use
StartOfMonth == [year |-> 2025, month |-> 1, day |-> 1]

NoCompanies == {}

NoCreates == <<>>

NoEditor == [items |-> <<>>, discount |-> FloatZero, template_variant |-> "variant_a"]

NoDoc == [emitted |-> FALSE]

\* Stripe configured (STRIPE_SECRET_KEY set), nothing created in the account
NoStripe == [configured |-> TRUE, customers |-> <<>>, subscriptions |-> <<>>]

CodesUnused == clock = StartOfMonth /\ companies = NoCompanies /\ creates = NoCreates

EditorUnused == editor = NoEditor /\ doc = NoDoc

StripeUnused == stripe = NoStripe

\* POST /api/track-pdf-download
TrackPdfDownload(u) ==
  LET r == TrackRequest(dbState, users, u) IN
  /\ users' = r.rows
  /\ resp' = [op |-> "track", user |-> u, status |-> r.status, body |-> r.body]
  /\ hist' = HistAfterTrack(u, r.status)
  /\ UNCHANGED <<dbState, reqs, calls, flow, quotes, items,
                 clock, companies, creates, editor, doc, stripe>>

\* Mutant: the access check consumes the trial like a generation request
CheckPdfAccess_consumes(u) ==
  LET r == CheckPdfAccessResponse(dbState, GetUser(users, u)) IN
  /\ users' = TrackRequest(dbState, users, u).rows
  /\ resp' = [op |-> "check", user |-> u, status |-> r.status, body |-> r.body]
  /\ UNCHANGED <<dbState, hist, reqs, calls, flow, quotes, items,
                 clock, companies, creates, editor, doc, stripe>>

\* GET /api/check-pdf-access
CheckPdfAccess(u) ==
  LET r == CheckPdfAccessResponse(dbState, GetUser(users, u)) IN
  /\ resp' = [op |-> "check", user |-> u, status |-> r.status, body |-> r.body]
  /\ UNCHANGED <<users, dbState, hist, reqs, calls, flow, quotes, items,
                 clock, companies, creates, editor, doc, stripe>>

\* Login: replitAuth's upsertUser(claims)
Login(u) ==
  /\ users' = IF StorageError(dbState) = "" THEN UpsertUser(users, u) ELSE users
  /\ resp' = [op |-> "login", user |-> u,
              status |-> IF StorageError(dbState) = "" THEN 200 ELSE 500]
  /\ hist' = HistAfter(users')
  /\ UNCHANGED <<dbState, reqs, calls, flow, quotes, items,
                 clock, companies, creates, editor, doc, stripe>>

\* POST /webhook/stripe
StripeWebhook(ev, sigOk) ==
  /\ users' = IF sigOk THEN WebhookRows(dbState, users, ev) ELSE users
  /\ resp' = [op |-> "webhook", status |-> WebhookResponse(sigOk).status,
              body |-> WebhookResponse(sigOk).body]
  /\ hist' = HistAfter(users')
  /\ UNCHANGED <<dbState, reqs, calls, flow, quotes, items,
                 clock, companies, creates, editor, doc, stripe>>

\* PUT /api/admin/users/:id
AdminUpdateUser(admin, id, body) ==
  /\ users' = AdminUpdateRows(dbState, users, admin, id, body)
  /\ resp' = [op |-> "adminUpdate", user |-> admin, target |-> id,
              status |-> AdminUpdateResponse(dbState, users, admin).status,
              body |-> AdminUpdateResponse(dbState, users, admin).body]
  /\ hist' = HistAfter(users')
  /\ UNCHANGED <<dbState, reqs, calls, flow, quotes, items,
                 clock, companies, creates, editor, doc, stripe>>

\* The database connection fails: storage calls throw until it recovers
DbFail ==
  /\ dbState = "up"
  /\ dbState' = "down"
  /\ resp' = [op |-> "dbFail"]
  /\ UNCHANGED <<users, hist, reqs, calls, flow, quotes, items,
                 clock, companies, creates, editor, doc, stripe>>

DbRecover ==
  /\ dbState = "down"
  /\ dbState' = "up"
  /\ resp' = [op |-> "dbRecover"]
  /\ UNCHANGED <<users, hist, reqs, calls, flow, quotes, items,
                 clock, companies, creates, editor, doc, stripe>>

\* A database with users that logged in (column defaults), some provisioned as admin,
\* some with a Stripe customer and subscription; or no database at all (db.ts stub).
InitRows ==
  {NoRow} \cup {DefaultRow(r, NullStr, NullStr) : r \in {"user", "admin"}}

InitUsers ==
  { rows \in [UserIds -> InitRows \cup {DefaultRow("user", CusId("u1"), SubId("u1"))}] :
      rows["u2"] \in InitRows }

Init ==
  /\ dbState \in {"up", "unset"}
  /\ users \in InitUsers
  /\ dbState = "unset" => users = [u \in UserIds |-> NoRow]
  /\ resp = NoRequest
  /\ hist = [u \in UserIds |-> NoHist(users[u])]
  /\ reqs = IdleSlots
  /\ calls = NoCalls
  /\ flow = IdleFlow
  /\ CodesUnused /\ EditorUnused /\ StripeUnused
  /\ quotes = NoQuotes
  /\ items = NoQuotes

Next ==
  \/ \E u \in UserIds : TrackPdfDownload(u)
  \/ \E u \in UserIds : CheckPdfAccess(u)
  \/ \E u \in UserIds : Login(u)
  \/ \E ev \in StripeEvents, sigOk \in BOOLEAN : StripeWebhook(ev, sigOk)
  \/ \E admin \in UserIds, id \in AdminTargets, body \in AdminBodies :
       AdminUpdateUser(admin, id, body)
  \/ DbFail
  \/ DbRecover

Spec == Init /\ [][Next]_vars

----------------------------------------------------------------------------
(* Concurrent POST /api/track-pdf-download requests: a request gives way to the    *)
(* others at each await (getUser in the middleware, getUser in the handler,        *)
(* incrementFreeDownloads).                                                        *)

Slots == 1..MaxSlots

\* A request arrives and passes isAuthenticated; the middleware is about to run
ReqStart(s, u) ==
  /\ reqs[s].pc = "idle"
  /\ reqs' = [reqs EXCEPT ![s] = [pc |-> "gate", user |-> u]]
  /\ UNCHANGED <<users, dbState, resp, hist, calls, flow, quotes, items,
                 clock, companies, creates, editor, doc, stripe>>

\* requireSubscriptionOrFreeTrial: getUser resolves and the middleware decides
ReqGate(s) ==
  /\ reqs[s].pc = "gate"
  /\ LET u == reqs[s].user
         gate == RequireSubscriptionOrFreeTrial(dbState, GetUser(users, u))
     IN reqs' = [reqs EXCEPT ![s] =
                   IF gate.next
                     THEN [pc |-> "handler", user |-> u]
                     ELSE [pc |-> "done", user |-> u, status |-> gate.status,
                           body |-> gate.body]]
  /\ UNCHANGED <<users, dbState, resp, hist, calls, flow, quotes, items,
                 clock, companies, creates, editor, doc, stripe>>

\* The handler: getUser resolves; the handler answers, or calls incrementFreeDownloads
ReqHandler(s) ==
  /\ reqs[s].pc = "handler"
  /\ LET u == reqs[s].user
         user == GetUser(users, u)
         r == TrackResponse(dbState, user)
     IN reqs' = [reqs EXCEPT ![s] =
                   IF StorageError(dbState) = "" /\ TrackIncrements(user)
                     THEN [pc |-> "incr", user |-> u]
                     ELSE [pc |-> "done", user |-> u, status |-> r.status,
                           body |-> r.body]]
  /\ UNCHANGED <<users, dbState, resp, hist, calls, flow, quotes, items,
                 clock, companies, creates, editor, doc, stripe>>

\* await storage.incrementFreeDownloads(userId) and the response after it; the catch
\* block answers 500 when the call throws
ReqIncrement(s) ==
  /\ reqs[s].pc = "incr"
  /\ LET u == reqs[s].user IN
       IF StorageError(dbState) # ""
         THEN /\ reqs' = [reqs EXCEPT ![s] =
                            [pc |-> "done", user |-> u, status |-> 500,
                             body |-> [message |-> "Failed to track PDF download"]]]
              /\ UNCHANGED <<users, calls,
                             clock, companies, creates, editor, doc, stripe>>
         ELSE /\ users' = IncrementFreeDownloads(users, u)
              /\ calls' = [calls EXCEPT ![u].n = @ + 1]
              /\ reqs' = [reqs EXCEPT ![s] =
                            [pc |-> "done", user |-> u, status |-> 200,
                             body |-> [success |-> TRUE, message |-> "Free trial used",
                                       freeDownloadsUsed |-> 1]]]
  /\ UNCHANGED <<dbState, resp, hist, flow, quotes, items,
                 clock, companies, creates, editor, doc, stripe>>

\* The response is delivered; the slot is free for another request
ReqFinish(s) ==
  /\ reqs[s].pc = "done"
  /\ reqs' = [reqs EXCEPT ![s] = [pc |-> "idle"]]
  /\ UNCHANGED <<users, dbState, resp, hist, calls, flow, quotes, items,
                 clock, companies, creates, editor, doc, stripe>>

\* Rows the requests run against: any role class, counter 0 or 1, subscribed or not
ConcRows ==
  [ role : {"user", "admin"},
    freeDownloadsUsed : {0, 1},
    hasActiveSubscription : BOOLEAN,
    stripeCustomerId : {NullStr},
    stripeSubscriptionId : {NullStr} ]

InitConc ==
  /\ dbState = "up"
  /\ users \in [UserIds -> ConcRows \cup {NoRow}]
  /\ users["u2"] \in {NoRow, DefaultRow("user", NullStr, NullStr)}
  /\ resp = NoRequest
  /\ hist = [u \in UserIds |-> NoHist(users[u])]
  /\ reqs = IdleSlots
  /\ calls = [u \in UserIds |->
                [base |-> IF users[u] = NoRow THEN 0 ELSE users[u].freeDownloadsUsed,
                 n |-> 0]]
  /\ flow = IdleFlow
  /\ CodesUnused /\ EditorUnused /\ StripeUnused
  /\ quotes = NoQuotes
  /\ items = NoQuotes

NextConc ==
  \/ \E s \in Slots, u \in UserIds : ReqStart(s, u)
  \/ \E s \in Slots : ReqGate(s)
  \/ \E s \in Slots : ReqHandler(s)
  \/ \E s \in Slots : ReqIncrement(s)
  \/ \E s \in Slots : ReqFinish(s)
  \/ DbFail
  \/ DbRecover

SpecConc == InitConc /\ [][NextConc]_vars

----------------------------------------------------------------------------
(* The quote routes: /api/quotes/:id and /api/quotes/:quoteId/items[/:itemId]      *)

QuoteIds == {"q1", "q2"}

ItemIds == {"i1", "i2"}

Titles == {"t0", "t1"}

Descriptions == {"d0", "d1"}

\* req.user.claims.email of the session of user u
Email(u) == IF u = "u1" THEN "u1@example.com" ELSE "u2@example.com"

\* Mutant: the ownership test passes for every authenticated requester
QuoteAccess_noOwnerCheck(db, quote, user, email) ==
  IF StorageError(db) # "" THEN 500
  ELSE IF quote = NoRow THEN 404
  ELSE 200

\* The head of every quote route: getQuoteDraft, 404 when there is none; getUser,
\* 403 when user?.role !== 'admin' && quote.createdBy !== req.user.claims.email;
\* 500 from the catch block; 200 stands for "the route goes on".
QuoteAccess(db, quote, user, email) ==
  IF StorageError(db) # "" THEN 500
  ELSE IF quote = NoRow THEN 404
  ELSE IF (user = NoRow \/ user.role # "admin") /\ quote.createdBy # email THEN 403
  ELSE 200

\* The check as made for requester u and quote id q in the current state
Access(u, q) == QuoteAccess(dbState, quotes[q], GetUser(users, u), Email(u))

\* deleteQuoteDraft; quote_items.quote_draft_id is ON DELETE CASCADE
DeleteQuoteDraft(qrows, q) == [qrows EXCEPT ![q] = NoRow]

CascadeItems(irows, q) ==
  [i \in ItemIds |-> IF irows[i] # NoRow /\ irows[i].quoteDraftId = q
                       THEN NoRow ELSE irows[i]]

\* updateQuoteItem / deleteQuoteItem: WHERE quote_items.id = itemId
UpdateQuoteItemRows(irows, i, data) ==
  IF irows[i] = NoRow THEN irows ELSE [irows EXCEPT ![i] = ApplyPartial(@, data)]

DeleteQuoteItemRows(irows, i) == [irows EXCEPT ![i] = NoRow]

QuoteResponse(op, u, q, status) ==
  [op |-> op, user |-> u, quote |-> q, status |-> status]

\* GET /api/quotes/:id
GetQuote(u, q) ==
  /\ resp' = QuoteResponse("GET quote", u, q, Access(u, q))
  /\ UNCHANGED <<users, dbState, hist, reqs, calls, flow, quotes, items,
                 clock, companies, creates, editor, doc, stripe>>

\* PUT /api/quotes/:id; id, code, createdBy, companyId, createdAt are deleted from the body
UpdateQuote(u, q, title) ==
  /\ resp' = QuoteResponse("PUT quote", u, q, Access(u, q))
  /\ quotes' = IF Access(u, q) = 200
                 THEN [quotes EXCEPT ![q] = ApplyPartial(@, [title |-> title])]
                 ELSE quotes
  /\ UNCHANGED <<users, dbState, hist, reqs, calls, flow, items,
                 clock, companies, creates, editor, doc, stripe>>

\* DELETE /api/quotes/:id
DeleteQuote(u, q) ==
  /\ resp' = QuoteResponse("DELETE quote", u, q, Access(u, q))
  /\ quotes' = IF Access(u, q) = 200 THEN DeleteQuoteDraft(quotes, q) ELSE quotes
  /\ items' = IF Access(u, q) = 200 THEN CascadeItems(items, q) ELSE items
  /\ UNCHANGED <<users, dbState, hist, reqs, calls, flow,
                 clock, companies, creates, editor, doc, stripe>>

\* POST /api/quotes/:quoteId/items; the row is the body as sent, with quoteDraftId
\* set from the path; valid = FALSE: insertQuoteItemSchema.parse throws
CreateQuoteItem(u, q, body, valid) ==
  /\ \E i \in ItemIds : items[i] = NoRow
  /\ LET status == IF Access(u, q) = 200 /\ ~valid THEN 500 ELSE Access(u, q)
         id == CHOOSE i \in ItemIds : items[i] = NoRow
     IN /\ resp' = QuoteResponse("POST items", u, q, status)
        /\ items' = IF status = 200
                      THEN [items EXCEPT ![id] =
                              [quoteDraftId |-> q] @@ body]
                      ELSE items
  /\ UNCHANGED <<users, dbState, hist, reqs, calls, flow, quotes,
                 clock, companies, creates, editor, doc, stripe>>

\* GET /api/quotes/:quoteId/items
GetQuoteItems(u, q) ==
  /\ resp' = QuoteResponse("GET items", u, q, Access(u, q))
  /\ UNCHANGED <<users, dbState, hist, reqs, calls, flow, quotes, items,
                 clock, companies, creates, editor, doc, stripe>>

\* PUT /api/quotes/:quoteId/items/:itemId; id, quoteDraftId, createdAt are deleted
\* from the body
UpdateQuoteItem(u, q, i, description) ==
  /\ resp' = QuoteResponse("PUT item", u, q, Access(u, q))
  /\ items' = IF Access(u, q) = 200
                THEN UpdateQuoteItemRows(items, i, [description |-> description])
                ELSE items
  /\ UNCHANGED <<users, dbState, hist, reqs, calls, flow, quotes,
                 clock, companies, creates, editor, doc, stripe>>

\* DELETE /api/quotes/:quoteId/items/:itemId
DeleteQuoteItem(u, q, i) ==
  /\ resp' = QuoteResponse("DELETE item", u, q, Access(u, q))
  /\ items' = IF Access(u, q) = 200 THEN DeleteQuoteItemRows(items, i) ELSE items
  /\ UNCHANGED <<users, dbState, hist, reqs, calls, flow, quotes,
                 clock, companies, creates, editor, doc, stripe>>

\* Stored quotes and items: q1 was created by u1; q2, when there is one, by u1 or u2.
\* u2 is an ordinary user; u1 has any role, or no row.
QuoteRows == [createdBy : {Email("u1"), Email("u2")}, title : {"t0"}]

ItemRows == [quoteDraftId : QuoteIds, description : {"d0"}]

InitQuotes ==
  /\ dbState = "up"
  /\ users \in [UserIds -> {NoRow} \cup {DefaultRow(r, NullStr, NullStr) :
                                           r \in {"user", "admin", "ADMIN", "banned"}}]
  /\ users["u2"] = DefaultRow("user", NullStr, NullStr)
  /\ quotes \in [QuoteIds -> QuoteRows \cup {NoRow}]
  /\ quotes["q1"] = [createdBy |-> Email("u1"), title |-> "t0"]
  /\ items \in [ItemIds -> ItemRows \cup {NoRow}]
  /\ items["i2"] = NoRow
  /\ \A i \in ItemIds : items[i] # NoRow => quotes[items[i].quoteDraftId] # NoRow
  /\ resp = NoRequest
  /\ hist = [u \in UserIds |-> NoHist(users[u])]
  /\ reqs = IdleSlots
  /\ calls = NoCalls
  /\ flow = IdleFlow
  /\ CodesUnused /\ EditorUnused /\ StripeUnused

NextQuotes ==
  \/ \E u \in UserIds, q \in QuoteIds : GetQuote(u, q)
  \/ \E u \in UserIds, q \in QuoteIds, t \in Titles : UpdateQuote(u, q, t)
  \/ \E u \in UserIds, q \in QuoteIds : DeleteQuote(u, q)
  \/ \E u \in UserIds, q \in QuoteIds, d \in Descriptions, valid \in BOOLEAN :
       CreateQuoteItem(u, q, [description |-> d], valid)
  \/ \E u \in UserIds, q \in QuoteIds : GetQuoteItems(u, q)
  \/ \E u \in UserIds, q \in QuoteIds, i \in ItemIds, d \in Descriptions :
       UpdateQuoteItem(u, q, i, d)
  \/ \E u \in UserIds, q \in QuoteIds, i \in ItemIds : DeleteQuoteItem(u, q, i)
  \/ DbFail
  \/ DbRecover

SpecQuotes == InitQuotes /\ [][NextQuotes]_vars

----------------------------------------------------------------------------
(* Properties of the entitlement gate, requests handled one after the other (Spec) *)

\* A step that handles POST /api/track-pdf-download of user u with the database up
TrackStep(u) ==
  /\ resp'.op = "track"
  /\ resp'.user = u
  /\ dbState = "up"
  /\ users[u] # NoRow

GateAdmin(row) == ToLowerCase(OrEmpty(row.role)) = "admin"

\* C1: a non-admin user that starts with freeDownloadsUsed = 0 and no subscription, and
\* whose row nothing but generation requests changed since: the first track request is
\* answered 200 and leaves freeDownloadsUsed = 1, every later one is answered 402
\* SUBSCRIPTION_REQUIRED and freeDownloadsUsed stays 1.
C1_FreshUserOneFreeGeneration ==
  [][\A u \in UserIds :
       (TrackStep(u) /\ hist[u].fresh) =>
         IF hist[u].tracks = 0
           THEN /\ resp'.status = 200
                /\ users[u].freeDownloadsUsed = 0
                /\ users'[u].freeDownloadsUsed = 1
           ELSE /\ resp'.status = 402
                /\ resp'.body.code = "SUBSCRIPTION_REQUIRED"
                /\ users[u].freeDownloadsUsed = 1
                /\ users'[u].freeDownloadsUsed = 1]_vars

\* C1 witness: a fresh user's third request in a row was refused, the counter is 1
C1_Witness ==
  /\ resp.op = "track"
  /\ resp.status = 402
  /\ hist[resp.user].fresh
  /\ hist[resp.user].tracks = 2
  /\ users[resp.user].freeDownloadsUsed = 1

\* C2: for a user whose role is admin every track request is permitted and never
\* changes freeDownloadsUsed.
C2_AdminCounterNeverTouched ==
  [][\A u \in UserIds :
       (TrackStep(u) /\ users[u].role = "admin") =>
         /\ resp'.status = 200
         /\ users'[u].freeDownloadsUsed = users[u].freeDownloadsUsed]_vars

\* C3: for a user with hasActiveSubscription = true every track request is permitted
\* and leaves freeDownloadsUsed (the whole row) unchanged, whatever the counter is.
C3_SubscribedPermittedCounterUntouched ==
  [][\A u \in UserIds :
       (TrackStep(u) /\ users[u].hasActiveSubscription) =>
         /\ resp'.status = 200
         /\ resp'.body.success
         /\ users' = users]_vars

\* C3 witness: a subscribed user with freeDownloadsUsed = 0 was permitted
C3_Witness ==
  /\ resp.op = "track"
  /\ resp.status = 200
  /\ users[resp.user] # NoRow
  /\ users[resp.user].hasActiveSubscription
  /\ users[resp.user].freeDownloadsUsed = 0
  /\ ~GateAdmin(users[resp.user])

\* C4: a non-admin user without subscription and with freeDownloadsUsed > 0 is refused
\* with 402 SUBSCRIPTION_REQUIRED carrying the current freeDownloadsUsed, and the
\* refusal changes no user's entitlement state.
C4_TrialExhaustedRefused ==
  [][\A u \in UserIds :
       (/\ TrackStep(u)
        /\ ~GateAdmin(users[u])
        /\ ~users[u].hasActiveSubscription
        /\ users[u].freeDownloadsUsed > 0) =>
         /\ resp'.status = 402
         /\ resp'.body.code = "SUBSCRIPTION_REQUIRED"
         /\ resp'.body.freeDownloadsUsed = users[u].freeDownloadsUsed
         /\ users' = users]_vars

\* C4 witness: a refusal that carries a count of 2
C4_Witness ==
  /\ resp.op = "track"
  /\ resp.status = 402
  /\ resp.body.freeDownloadsUsed = 2
  /\ users[resp.user].freeDownloadsUsed = 2
  /\ ~users[resp.user].hasActiveSubscription

\* C5: freeDownloadsUsed never decreases, and every change of it is an increase by
\* exactly 1 made by a permitted generation request of a user without subscription.
C5_CounterOnlyIncrementsByGeneration ==
  [][\A u \in UserIds :
       (/\ users[u] # NoRow
        /\ users'[u] # NoRow
        /\ users'[u].freeDownloadsUsed # users[u].freeDownloadsUsed) =>
         /\ users[u].freeDownloadsUsed # NullInt
         /\ users'[u].freeDownloadsUsed = users[u].freeDownloadsUsed + 1
         /\ resp'.op = "track"
         /\ resp'.user = u
         /\ resp'.status = 200
         /\ ~users[u].hasActiveSubscription]_vars

\* C8: GET /api/check-pdf-access changes no user row, whatever it answers.
C8_CheckAccessSideEffectFree ==
  [][resp'.op = "check" => users' = users]_vars

\* C8 witness: the check answered canGenerate = false for a user with a used trial
C8_Witness ==
  /\ resp.op = "check"
  /\ resp.status = 200
  /\ ~resp.body.canGenerate
  /\ users[resp.user].freeDownloadsUsed = 1

----------------------------------------------------------------------------
(* Properties of concurrent track requests (SpecConc) *)

\* C6: under every interleaving of concurrent track requests of one non-admin user
\* without subscription that starts at freeDownloadsUsed = 0, the counter is
\* incremented exactly once (it never exceeds 1) and at most one request is
\* permitted as the free generation.
C6_ConcurrentTrialConsumedOnce ==
  \A u \in UserIds :
    (/\ users[u] # NoRow
     /\ ~GateAdmin(users[u])
     /\ ~users[u].hasActiveSubscription
     /\ calls[u].base = 0) =>
      /\ users[u].freeDownloadsUsed <= 1
      /\ calls[u].n <= 1
      /\ Cardinality({s \in Slots : /\ reqs[s].pc = "done"
                                    /\ reqs[s].user = u
                                    /\ reqs[s].status = 200}) <= 1

\* C9: incrementFreeDownloads loses no update: after n calls for a user, in any
\* interleaving, freeDownloadsUsed is its initial value plus n.
C9_IncrementAtomic ==
  \A u \in UserIds :
    users[u] # NoRow => users[u].freeDownloadsUsed = calls[u].base + calls[u].n

\* C9 witness: two requests of one user were both past the handler's read when the
\* first called incrementFreeDownloads; both calls are applied
C9_Witness ==
  \E u \in UserIds :
    /\ users[u] # NoRow
    /\ calls[u].n = 2
    /\ users[u].freeDownloadsUsed = calls[u].base + 2
    /\ \A s \in {1, 2} : reqs[s].pc = "done" /\ reqs[s].user = u /\ reqs[s].status = 200

----------------------------------------------------------------------------
(* Properties of the quote routes (SpecQuotes) *)

QuoteOps ==
  {"GET quote", "PUT quote", "DELETE quote", "POST items", "GET items",
   "PUT item", "DELETE item"}

\* The requester is the quote's creator, or an admin
OwnerOrAdmin(u, q) ==
  \/ quotes[q].createdBy = Email(u)
  \/ (users[u] # NoRow /\ users[u].role = "admin")

\* C10: on every quote route that takes a quote id, with the database up: a request
\* for a quote that does not exist is answered 404; a request for an existing quote by
\* a requester who is neither its creator nor an admin is answered 403 and changes no
\* stored quote or item; a request by the creator or by an admin is let through (it is
\* answered neither 404 nor 403).
C10_QuoteRoutesOwnership ==
  [][(resp'.op \in QuoteOps /\ dbState = "up") =>
       LET u == resp'.user
           q == resp'.quote
       IN IF quotes[q] = NoRow
            THEN resp'.status = 404 /\ quotes' = quotes /\ items' = items
          ELSE IF ~OwnerOrAdmin(u, q)
            THEN resp'.status = 403 /\ quotes' = quotes /\ items' = items
          ELSE resp'.status \notin {403, 404}]_vars

\* C10 witness: a non-owner was refused 403 on a delete and the quote is still
\* stored, with its item
C10_Witness ==
  /\ resp.op = "DELETE quote"
  /\ resp.status = 403
  /\ quotes[resp.quote] # NoRow
  /\ quotes[resp.quote].createdBy # Email(resp.user)
  /\ \E i \in ItemIds : items[i] # NoRow /\ items[i].quoteDraftId = resp.quote

----------------------------------------------------------------------------
(* Quote codes: POST /api/quotes and generateQuoteCode                             *)

DraftIds == 1..MaxDrafts

\* String(n): the decimal digits of a natural number
Digit == <<"0", "1", "2", "3", "4", "5", "6", "7", "8", "9">>

RECURSIVE NumberToString(_)
NumberToString(n) ==
  IF n < 10 THEN <<Digit[n + 1]>> ELSE NumberToString(n \div 10) \o <<Digit[(n % 10) + 1]>>

\* padStart(len, '0'): zeros in front up to len characters, never a cut
RECURSIVE PadStart(_, _)
PadStart(str, len) == IF Len(str) >= len THEN str ELSE PadStart(<<"0">> \o str, len)

\* `QT-${year}${month}-${sequenceStr}`
FormatQuoteCode(year, month, dailySequence) ==
  <<"Q", "T", "-">> \o NumberToString(year) \o PadStart(NumberToString(month), 2)
    \o <<"-">> \o PadStart(NumberToString(dailySequence), 3)

\* created_at >= startOfDay AND created_at < endOfDay
CreatedOn(row, today) == row # NoRow /\ row.createdAt = today

\* count(*) of the quotes created today
CountToday(qrows, today) ==
  Cardinality({q \in DOMAIN qrows : CreatedOn(qrows[q], today)})

\* generateQuoteCode
GenerateQuoteCode(qrows, today) ==
  FormatQuoteCode(today.year, today.month, CountToday(qrows, today) + 1)

StoredCodes(qrows) == {qrows[q].code : q \in {d \in DOMAIN qrows : qrows[d] # NoRow}}

\* getCompanyByUser
GetCompanyByUser(crows, email) == \E c \in crows : c.createdBy = email

\* A row of the companies table as createCompany inserts it: subscription_status
\* defaults to 'active'
CompanyRow(id, email, name) ==
  [id |-> id, createdBy |-> email, name |-> name, subscriptionStatus |-> "active"]

\* createQuoteDraft: INSERT; code is UNIQUE, id and created_at take their defaults
CreateQuoteDraftFails(qrows, code) == code \in StoredCodes(qrows)

CreateQuoteDraft(qrows, id, code, email, today) ==
  [qrows EXCEPT ![id] = [createdBy |-> email, title |-> "t0", code |-> code,
                         createdAt |-> today]]

\* The response of POST /api/quotes; error is what the catch block logs.
\* From the parse on: insertQuoteDraftSchema.parse, createQuoteDraft, res.json
PostQuotesInsertStatus(db, qrows, code, valid) ==
  IF ~valid THEN [status |-> 500, error |-> "ZodError"]
  ELSE IF StorageError(db) # "" THEN [status |-> 500, error |-> StorageError(db)]
  ELSE IF CreateQuoteDraftFails(qrows, code) THEN [status |-> 500, error |-> "unique"]
  ELSE [status |-> 200, error |-> ""]

\* The whole handler
PostQuotesStatus(db, crows, qrows, email, code, valid) ==
  IF StorageError(db) # "" THEN [status |-> 500, error |-> StorageError(db)]
  ELSE IF ~GetCompanyByUser(crows, email) THEN [status |-> 400, error |-> "no company"]
  ELSE PostQuotesInsertStatus(db, qrows, code, valid)

\* POST /api/quotes handled without interleaving; valid = FALSE:
\* insertQuoteDraftSchema.parse throws. The new row gets a fresh id.
CreateQuote(u, valid) ==
  /\ \E q \in DraftIds : quotes[q] = NoRow
  /\ LET code == GenerateQuoteCode(quotes, clock)
         r == PostQuotesStatus(dbState, companies, quotes, Email(u), code, valid)
         id == CHOOSE q \in DraftIds : quotes[q] = NoRow
     IN /\ resp' = [op |-> "POST quotes", user |-> u, status |-> r.status,
                    error |-> r.error, code |-> code, stored |-> StoredCodes(quotes)]
        /\ quotes' = IF r.status = 200
                       THEN CreateQuoteDraft(quotes, id, code, Email(u), clock)
                       ELSE quotes
  /\ UNCHANGED <<users, dbState, hist, reqs, calls, flow, items,
                 clock, companies, creates, editor, doc, stripe>>

\* Midnight passes: new Date() gives the next day, or the first day of the next month
NextDay ==
  /\ \/ /\ clock.day < MaxDay
        /\ clock' = [clock EXCEPT !.day = @ + 1]
     \/ /\ clock.day = MaxDay
        /\ clock.month < MaxMonth
        /\ clock' = [clock EXCEPT !.month = @ + 1, !.day = 1]
  /\ resp' = [op |-> "nextDay"]
  /\ UNCHANGED <<users, dbState, hist, reqs, calls, flow, quotes, items,
                 companies, creates, editor, doc, stripe>>

\* No quote is stored; u1 and u2 are ordinary users, u1 has a company, u2 may have one
InitCodes ==
  /\ dbState = "up"
  /\ users = [u \in UserIds |-> DefaultRow("user", NullStr, NullStr)]
  /\ quotes = [q \in DraftIds |-> NoRow]
  /\ items = [i \in ItemIds |-> NoRow]
  /\ clock = StartOfMonth
  /\ companies \in {{CompanyRow("c1", Email("u1"), "n0")},
                    {CompanyRow("c1", Email("u1"), "n0"),
                     CompanyRow("c2", Email("u2"), "n0")}}
  /\ creates = NoCreates
  /\ resp = NoRequest
  /\ hist = [u \in UserIds |-> NoHist(users[u])]
  /\ reqs = IdleSlots
  /\ calls = NoCalls
  /\ flow = IdleFlow
  /\ EditorUnused /\ StripeUnused

NextCodes ==
  \/ \E u \in UserIds, valid \in BOOLEAN : CreateQuote(u, valid)
  \/ \E u \in UserIds, q \in DraftIds : DeleteQuote(u, q)
  \/ NextDay

SpecCodes == InitCodes /\ [][NextCodes]_vars

\* C11: every POST /api/quotes that comes to generate a code gets one that no
\* stored quote has, so the insert never fails on the unique constraint.
C11_CodeDiffersFromStoredCodes ==
  [][(resp'.op = "POST quotes" /\ resp'.error \in {"", "unique"}) =>
       (resp'.code \notin resp'.stored /\ resp'.status = 200)]_vars

----------------------------------------------------------------------------
(* Concurrent POST /api/quotes requests: a request gives way to the others at      *)
(* each await (getCompanyByUser, generateQuoteCode, createQuoteDraft).             *)

IdleCreates == [s \in Slots |-> [pc |-> "idle"]]

\* A request arrives and passes isAuthenticated; getCompanyByUser resolves
PostQuotesStart(s, u) ==
  /\ creates[s].pc = "idle"
  /\ creates' = [creates EXCEPT ![s] =
                   IF StorageError(dbState) # ""
                     THEN [pc |-> "done", user |-> u, status |-> 500,
                           error |-> StorageError(dbState)]
                   ELSE IF ~GetCompanyByUser(companies, Email(u))
                     THEN [pc |-> "done", user |-> u, status |-> 400,
                           error |-> "no company"]
                     ELSE [pc |-> "company", user |-> u]]
  /\ UNCHANGED <<users, dbState, resp, hist, reqs, calls, flow, quotes, items,
                 clock, companies, editor, doc, stripe>>

\* await storage.generateQuoteCode(): the count query resolves
PostQuotesGenerate(s) ==
  /\ creates[s].pc = "company"
  /\ creates' = [creates EXCEPT ![s] =
                   IF StorageError(dbState) # ""
                     THEN [pc |-> "done", user |-> @.user, status |-> 500,
                           error |-> StorageError(dbState)]
                     ELSE [pc |-> "code", user |-> @.user,
                           code |-> GenerateQuoteCode(quotes, clock)]]
  /\ UNCHANGED <<users, dbState, resp, hist, reqs, calls, flow, quotes, items,
                 clock, companies, editor, doc, stripe>>

\* insertQuoteDraftSchema.parse, await storage.createQuoteDraft and the response
PostQuotesInsert(s, valid) ==
  /\ creates[s].pc = "code"
  /\ \E q \in DraftIds : quotes[q] = NoRow
  /\ LET u == creates[s].user
         code == creates[s].code
         r == PostQuotesInsertStatus(dbState, quotes, code, valid)
         id == CHOOSE q \in DraftIds : quotes[q] = NoRow
     IN /\ creates' = [creates EXCEPT ![s] =
                         [pc |-> "done", user |-> u, status |-> r.status,
                          error |-> r.error, code |-> code]]
        /\ quotes' = IF r.status = 200
                       THEN CreateQuoteDraft(quotes, id, code, Email(u), clock)
                       ELSE quotes
  /\ UNCHANGED <<users, dbState, resp, hist, reqs, calls, flow, items,
                 clock, companies, editor, doc, stripe>>

\* At most one quote is stored, created today with the first code of the day
InitCodesConc ==
  /\ dbState = "up"
  /\ users = [u \in UserIds |-> DefaultRow("user", NullStr, NullStr)]
  /\ \/ quotes = [q \in DraftIds |-> NoRow]
     \/ \E u \in UserIds :
          quotes = CreateQuoteDraft([q \in DraftIds |-> NoRow], 1,
                                    GenerateQuoteCode([q \in DraftIds |-> NoRow], StartOfMonth),
                                    Email(u), StartOfMonth)
  /\ items = [i \in ItemIds |-> NoRow]
  /\ clock = StartOfMonth
  /\ companies \in {{CompanyRow("c1", Email("u1"), "n0")},
                    {CompanyRow("c1", Email("u1"), "n0"),
                     CompanyRow("c2", Email("u2"), "n0")}}
  /\ creates = IdleCreates
  /\ resp = NoRequest
  /\ hist = [u \in UserIds |-> NoHist(users[u])]
  /\ reqs = IdleSlots
  /\ calls = NoCalls
  /\ flow = IdleFlow
  /\ EditorUnused /\ StripeUnused

NextCodesConc ==
  \/ \E s \in Slots, u \in UserIds : PostQuotesStart(s, u)
  \/ \E s \in Slots : PostQuotesGenerate(s)
  \/ \E s \in Slots, valid \in BOOLEAN : PostQuotesInsert(s, valid)

SpecCodesConc == InitCodesConc /\ [][NextCodesConc]_vars

\* C20: two concurrent POST /api/quotes requests that got to the insert with a valid
\* body both succeed, with different codes.
C20_ConcurrentCreationsGetDifferentCodes ==
  \A s, t \in Slots :
    (/\ s # t
     /\ creates[s].pc = "done" /\ creates[s].error \in {"", "unique"}
     /\ creates[t].pc = "done" /\ creates[t].error \in {"", "unique"}) =>
      /\ creates[s].status = 200
      /\ creates[t].status = 200
      /\ creates[s].code # creates[t].code

----------------------------------------------------------------------------
(* The quote editor: ItemsList (addItem, removeItem, updateItem), QuoteSummary and *)
(* the loading of a saved quote. Quantities are whole numbers, prices and totals   *)
(* are floating-point numbers; a text is the tuple of its characters.              *)

IsDigit(c) == \E d \in 1..10 : Digit[d] = c

DigitValue(c) == (CHOOSE d \in 1..10 : Digit[d] = c) - 1

\* The value of the digits a text starts with, and how many they are
RECURSIVE LeadingDigits(_)
LeadingDigits(text) ==
  IF text = <<>> \/ ~IsDigit(Head(text)) THEN <<>>
  ELSE <<Head(text)>> \o LeadingDigits(Tail(text))

RECURSIVE DigitsValue(_, _)
DigitsValue(digits, acc) ==
  IF digits = <<>> THEN acc ELSE DigitsValue(Tail(digits), 10 * acc + DigitValue(Head(digits)))

Unsigned(text) == IF text # <<>> /\ Head(text) = "-" THEN Tail(text) ELSE text

Signed(text, n) == IF text # <<>> /\ Head(text) = "-" THEN 0 - n ELSE n

\* parseInt(text) || 0: the leading whole number, the fraction is cut; 0 for NaN
ParseIntOrZero(text) ==
  Signed(text, DigitsValue(LeadingDigits(Unsigned(text)), 0))

\* parseFloat(text) || 0 for texts with at most two decimals: the number nearest to
\* the decimal, which is hundredths / 100 rounded once; 0 for NaN
ParseFloatOrZero(text) ==
  LET t == Unsigned(text)
      whole == LeadingDigits(t)
      rest == SubSeq(t, Len(whole) + 1, Len(t))
      frac == IF rest # <<>> /\ Head(rest) = "." THEN LeadingDigits(Tail(rest)) ELSE <<>>
      hundredths == 100 * DigitsValue(whole, 0)
                      + DigitsValue(SubSeq(frac \o <<"0", "0">>, 1, 2), 0)
  IN FloatDiv(Normalize(Signed(text, hundredths), 0), FloatOf(100))

\* x || 0 for a whole number x
OrZero(x) == IF x = 0 THEN 0 ELSE x

Max(a, b) == IF a >= b THEN a ELSE b

\* addItem's new item
NewItem ==
  [description |-> "", unit_price |-> FloatZero, needed_quantity |-> 1,
   owned_quantity |-> 0, buy_quantity |-> 1, total |-> FloatZero]

AddItemTo(list) == Append(list, NewItem)

\* removeItem: items.filter((_, i) => i !== index)
RemoveItemFrom(list, index) ==
  [i \in 1..(Len(list) - 1) |-> IF i < index THEN list[i] ELSE list[i + 1]]

\* Mutant: the total is taken from the needed quantity
Recalculate_fromNeeded(item) ==
  LET needed == OrZero(item.needed_quantity)
      owned == OrZero(item.owned_quantity)
      buyQty == Max(0, needed - owned)
  IN [item EXCEPT !.buy_quantity = buyQty,
                  !.total = FloatMul(FloatOf(needed), FloatOrZero(item.unit_price))]

\* updateItem's "Calculate buy_quantity and total"
Recalculate(item) ==
  LET needed == OrZero(item.needed_quantity)
      owned == OrZero(item.owned_quantity)
      buyQty == Max(0, needed - owned)
  IN [item EXCEPT !.buy_quantity = buyQty,
                  !.total = FloatMul(FloatOf(buyQty), FloatOrZero(item.unit_price))]

\* updateItem
UpdateItemIn(list, index, field, value) ==
  LET changed == [list[index] EXCEPT ![field] = value] IN
    [list EXCEPT ![index] =
       IF field \in {"needed_quantity", "owned_quantity", "unit_price"}
         THEN Recalculate(changed)
         ELSE changed]

\* items.reduce((sum, item) => sum + (item.total || 0), 0)
RECURSIVE Reduce(_, _)
Reduce(list, sum) ==
  IF list = <<>> THEN sum
  ELSE Reduce(Tail(list), FloatAdd(sum, FloatOrZero(Head(list).total)))

\* QuoteSummary's subtotal
Subtotal(list) == Reduce(list, FloatZero)

\* What the inputs of a row give to updateItem: the text typed (the inputs have
\* min="0"), parsed
QuantityTexts == {<<>>, <<"1">>, <<"2", ".", "5">>}

PriceTexts == {<<>>, <<"0", ".", "5">>}

FieldValues(field) ==
  CASE field = "description" -> {"d1"}
    [] field = "unit_price" -> {ParseFloatOrZero(t) : t \in PriceTexts}
    [] field = "needed_quantity" -> {ParseIntOrZero(t) : t \in QuantityTexts}
    [] field = "owned_quantity" -> {ParseIntOrZero(t) : t \in QuantityTexts}

Fields == {"description", "unit_price", "needed_quantity", "owned_quantity"}

\* ItemsList: the "Adicionar Item" button
AddItem ==
  /\ Len(editor.items) < MaxItems
  /\ editor' = [editor EXCEPT !.items = AddItemTo(@)]
  /\ resp' = [op |-> "addItem"]
  /\ UNCHANGED <<users, dbState, hist, reqs, calls, flow, quotes, items,
                 clock, companies, creates, doc, stripe>>

\* ItemsList: the remove button of row index
RemoveItem(index) ==
  /\ index \in 1..Len(editor.items)
  /\ editor' = [editor EXCEPT !.items = RemoveItemFrom(@, index)]
  /\ resp' = [op |-> "removeItem"]
  /\ UNCHANGED <<users, dbState, hist, reqs, calls, flow, quotes, items,
                 clock, companies, creates, doc, stripe>>

\* ItemsList: an input of row index changes
UpdateItem(index, field, value) ==
  /\ index \in 1..Len(editor.items)
  /\ editor' = [editor EXCEPT !.items = UpdateItemIn(@, index, field, value)]
  /\ resp' = [op |-> "updateItem"]
  /\ UNCHANGED <<users, dbState, hist, reqs, calls, flow, quotes, items,
                 clock, companies, creates, doc, stripe>>

\* A new quote: the editor starts with no items
InitItems ==
  /\ dbState = "up"
  /\ users = [u \in UserIds |-> DefaultRow("user", NullStr, NullStr)]
  /\ quotes = [q \in QuoteIds |->
                 IF q = "q1" THEN [createdBy |-> Email("u1"), title |-> "t0"] ELSE NoRow]
  /\ items = [i \in ItemIds |-> NoRow]
  /\ editor = NoEditor
  /\ doc = NoDoc
  /\ resp = NoRequest
  /\ hist = [u \in UserIds |-> NoHist(users[u])]
  /\ reqs = IdleSlots
  /\ calls = NoCalls
  /\ flow = IdleFlow
  /\ CodesUnused /\ StripeUnused

NextItems ==
  \/ AddItem
  \/ \E index \in 1..MaxItems : RemoveItem(index)
  \/ \E index \in 1..MaxItems, field \in Fields :
       \E value \in FieldValues(field) : UpdateItem(index, field, value)

SpecItems == InitItems /\ [][NextItems]_vars

\* C13: in a list built by addItem, updateItem and removeItem from the empty list,
\* every item has buy_quantity = max(0, needed_quantity - owned_quantity) >= 0 and
\* total = buy_quantity * unit_price.
C13_ItemsKeepBuyQuantityAndTotal ==
  \A i \in 1..Len(editor.items) :
    LET item == editor.items[i] IN
      /\ item.buy_quantity = Max(0, item.needed_quantity - item.owned_quantity)
      /\ item.buy_quantity >= 0
      /\ item.total = FloatMul(FloatOf(item.buy_quantity), item.unit_price)

\* C13 witness: an item with an owned quantity and a price, part of it still to buy,
\* and one that is owned beyond what is needed
C13_Witness ==
  /\ Len(editor.items) = 2
  /\ editor.items[1].owned_quantity > 0
  /\ editor.items[1].needed_quantity > editor.items[1].owned_quantity
  /\ editor.items[1].unit_price.m > 0
  /\ editor.items[1].total #
       FloatMul(FloatOf(editor.items[1].needed_quantity), editor.items[1].unit_price)
  /\ editor.items[2].owned_quantity > editor.items[2].needed_quantity
  /\ editor.items[2].buy_quantity = 0

----------------------------------------------------------------------------
(* Saved items: QuoteDraft.createItem stores an item, the editor loads a saved     *)
(* quote with its items                                                            *)

\* Bodies of POST /api/quotes/:quoteId/items: numeric columns travel as texts
\* (unit price 0.50: 2 needed, 1 owned, total 0.50; 2.5 needed, 1 owned, total 0.75)
SavedItemBodies ==
  { [description |-> "d1",
     unitPrice |-> <<"0", ".", "5", "0">>,
     neededQuantity |-> <<"2">>,
     ownedQuantity |-> <<"1">>,
     buyQuantity |-> <<"1">>,
     total |-> <<"0", ".", "5", "0">>],
    [description |-> "d1",
     unitPrice |-> <<"0", ".", "5", "0">>,
     neededQuantity |-> <<"2", ".", "5">>,
     ownedQuantity |-> <<"1">>,
     buyQuantity |-> <<"1", ".", "5">>,
     total |-> <<"0", ".", "7", "5">>] }

\* getQuoteItems: the rows of the quote, in the order of the ids
ItemOrder == <<"i1", "i2">>

RECURSIVE GetQuoteItemRows(_, _, _)
GetQuoteItemRows(irows, q, ids) ==
  IF ids = <<>> THEN <<>>
  ELSE (IF irows[Head(ids)] # NoRow /\ irows[Head(ids)].quoteDraftId = q
          THEN <<irows[Head(ids)]>> ELSE <<>>)
       \o GetQuoteItemRows(irows, q, Tail(ids))

\* The editor's item made of a saved row (quote-editor, setQuoteData)
LoadedItem(row) ==
  [description |-> row.description,
   unit_price |-> ParseFloatOrZero(row.unitPrice),
   needed_quantity |-> ParseIntOrZero(row.neededQuantity),
   owned_quantity |-> ParseIntOrZero(row.ownedQuantity),
   buy_quantity |-> ParseIntOrZero(row.buyQuantity),
   total |-> ParseFloatOrZero(row.total)]

LoadedItems(rows) == [i \in 1..Len(rows) |-> LoadedItem(rows[i])]

\* The queryFn of the editor: QuoteDraft.get(params.id) answers the quote with its
\* items and setQuoteData replaces the editor's data. The quote rows of the model
\* carry the column defaults for discount and templateVariant. What a refused GET
\* leaves in the editor depends on apiRequest (lib/queryClient); the load modelled
\* is the one the server answers with 200.
LoadQuote(u, q) ==
  /\ Access(u, q) = 200
  /\ resp' = QuoteResponse("GET quote", u, q, 200)
  /\ editor' = [items |-> LoadedItems(GetQuoteItemRows(items, q, ItemOrder)),
                discount |-> FloatZero,
                template_variant |-> "variant_a"]
  /\ UNCHANGED <<users, dbState, hist, reqs, calls, flow, quotes, items,
                 clock, companies, creates, doc, stripe>>

NextEditor ==
  \/ AddItem
  \/ \E index \in 1..MaxItems : RemoveItem(index)
  \/ \E index \in 1..MaxItems, field \in Fields :
       \E value \in FieldValues(field) : UpdateItem(index, field, value)
  \/ \E body \in SavedItemBodies, valid \in BOOLEAN : CreateQuoteItem("u1", "q1", body, valid)
  \/ \E i \in ItemIds : DeleteQuoteItem("u1", "q1", i)
  \/ LoadQuote("u1", "q1")

SpecEditor == InitItems /\ [][NextEditor]_vars

\* The sum over the items, in their order, of
\* max(0, needed_quantity - owned_quantity) * unit_price
RECURSIVE SumToBuyFrom(_, _)
SumToBuyFrom(list, sum) ==
  IF list = <<>> THEN sum
  ELSE SumToBuyFrom(Tail(list),
         FloatAdd(sum, FloatMul(FloatOf(Max(0, Head(list).needed_quantity
                                                 - Head(list).owned_quantity)),
                                Head(list).unit_price)))

SumToBuy(list) == SumToBuyFrom(list, FloatZero)

\* C12: whatever list the editor holds, built in the editor or loaded from a saved
\* quote, the subtotal of the summary is the sum over the items of
\* max(0, needed_quantity - owned_quantity) * unit_price.
C12_SubtotalIsSumOfItemsToBuy ==
  Subtotal(editor.items) = SumToBuy(editor.items)

----------------------------------------------------------------------------
(* The totals of the summary, as JavaScript computes them                          *)

\* QuoteSummary and generateQuotePDF: subtotal, discountAmount, total
SummaryTotals(list, discount) ==
  LET subtotal == Subtotal(list)
      discountAmount == FloatDiv(FloatMul(subtotal, discount), FloatOf(100))
  IN [emitted |-> TRUE, subtotal |-> subtotal, discountAmount |-> discountAmount,
      total |-> FloatSub(subtotal, discountAmount)]

\* Item totals of the summary's props: not negative, MantissaBits significand bits
ItemTotals ==
  {Normalize(m, e) : m \in 0..(Pow2(MantissaBits) - 1), e \in {0 - 1, 0}}

\* Discounts in [0, 100]
DiscountPercents == {FloatOf(d) : d \in {0, 10, 50, 100}}

\* onDiscountChange
DiscountChange(discount) ==
  /\ editor' = [editor EXCEPT !.discount = discount]
  /\ resp' = [op |-> "discountChange"]
  /\ UNCHANGED <<users, dbState, hist, reqs, calls, flow, quotes, items,
                 clock, companies, creates, doc, stripe>>

\* QuoteSummary renders: the totals of the items and the discount it is given
RenderSummary ==
  /\ doc' = SummaryTotals(editor.items, editor.discount)
  /\ resp' = [op |-> "renderSummary"]
  /\ UNCHANGED <<users, dbState, hist, reqs, calls, flow, quotes, items,
                 clock, companies, creates, editor, stripe>>

\* The summary is given one item with any total and starts without discount
InitSummary ==
  /\ dbState = "up"
  /\ users = [u \in UserIds |-> DefaultRow("user", NullStr, NullStr)]
  /\ quotes = NoQuotes
  /\ items = NoQuotes
  /\ \E total \in ItemTotals :
       editor = [items |-> <<[total |-> total]>>, discount |-> FloatZero,
                 template_variant |-> "variant_a"]
  /\ doc = NoDoc
  /\ resp = NoRequest
  /\ hist = [u \in UserIds |-> NoHist(users[u])]
  /\ reqs = IdleSlots
  /\ calls = NoCalls
  /\ flow = IdleFlow
  /\ CodesUnused /\ StripeUnused

NextSummary ==
  \/ \E discount \in DiscountPercents : DiscountChange(discount)
  \/ RenderSummary

SpecSummary == InitSummary /\ [][NextSummary]_vars

\* C14: for a subtotal that is not negative and a discount in [0, 100], the total
\* computed (subtotal - subtotal * discount / 100) lies between 0 and the subtotal.
C14_TotalBetweenZeroAndSubtotal ==
  doc.emitted =>
    /\ FloatLeq(FloatZero, doc.total)
    /\ FloatLeq(doc.total, doc.subtotal)

----------------------------------------------------------------------------
(* The document: generateQuotePDF from the totals on, and generateHTMLTemplate.    *)
(* The document is modelled by its parts: the palette, the colour scheme of the    *)
(* body, the rows of the items table and the summary. Amounts are kept as numbers  *)
(* (toLocaleString is not modelled).                                               *)

ClassicColors ==
  [main |-> "#2563eb", dark |-> "#1e40af", light |-> "#e0e7ff", bg |-> "#eff6ff",
   bg_grad |-> "linear-gradient(135deg, #eff6ff 0%, #dbeafe 100%)",
   header_grad |-> "linear-gradient(135deg, #2563eb 0%, #3b82f6 100%)"]

ModernColors ==
  [main |-> "#7c3aed", dark |-> "#6b21a8", light |-> "#e9d5ff", bg |-> "#faf5ff",
   bg_grad |-> "linear-gradient(135deg, #faf5ff 0%, #f3e8ff 100%)",
   header_grad |-> "linear-gradient(135deg, #7c3aed 0%, #8b5cf6 100%)"]

ElegantColors ==
  [main |-> "#c59d5f", dark |-> "#2d3748", light |-> "#4a5568", bg |-> "#2d3748",
   bg_grad |-> "#2d3748",
   header_grad |-> "linear-gradient(135deg, #4a5568 0%, #2d3748 100%)",
   text |-> "#f7fafc", text_alt |-> "#a0aec0"]

CreativeColors ==
  [main |-> "#047857", dark |-> "#065f46", light |-> "#d1fae5", bg |-> "#f0fdf4",
   bg_grad |-> "linear-gradient(135deg, #f0fdf4 0%, #d1fae5 100%)",
   header_grad |-> "linear-gradient(135deg, #059669 0%, #10b981 100%)"]

MinimalColors ==
  [main |-> "#f97316", dark |-> "#1f2937", light |-> "#e5e7eb", bg |-> "#f9fafb",
   bg_grad |-> "#f9fafb", header_grad |-> "#1f2937"]

\* Mutant: an unknown variant gets the palette of variant_b
GetTemplateColors_defaultModern(variant) ==
  CASE variant = "variant_c" -> ElegantColors
    [] variant = "variant_d" -> CreativeColors
    [] variant = "variant_e" -> MinimalColors
    [] OTHER -> ModernColors

\* getTemplateColors
GetTemplateColors(variant) ==
  CASE variant = "variant_b" -> ModernColors
    [] variant = "variant_c" -> ElegantColors
    [] variant = "variant_d" -> CreativeColors
    [] variant = "variant_e" -> MinimalColors
    [] OTHER -> ClassicColors

\* A row of the items table; economia holds the "Economia" annotation when there is one
ItemRow(item) ==
  LET economia == FloatMul(FloatOf(OrZero(item.owned_quantity)),
                           FloatOrZero(item.unit_price))
  IN [description |-> item.description,
      unit_price |-> FloatOrZero(item.unit_price),
      needed_quantity |-> OrZero(item.needed_quantity),
      owned_quantity |-> OrZero(item.owned_quantity),
      buy_quantity |-> OrZero(item.buy_quantity),
      total |-> FloatOrZero(item.total),
      economia |-> IF economia.m > 0 THEN <<economia>> ELSE <<>>]

\* generateHTMLTemplate
GenerateHTMLTemplate(quote, totals) ==
  LET colors == GetTemplateColors(quote.template_variant)
      isDarkTheme == quote.template_variant = "variant_c"
  IN [emitted |-> TRUE,
      colors |-> colors,
      isDarkTheme |-> isDarkTheme,
      color |-> IF isDarkTheme THEN colors.text ELSE "#333",
      background |-> IF isDarkTheme THEN colors.bg ELSE "white",
      rows |-> [i \in 1..Len(quote.items) |-> ItemRow(quote.items[i])],
      subtotal |-> totals.subtotal,
      discount |-> IF quote.discount.m > 0 THEN <<totals.discountAmount>> ELSE <<>>,
      total |-> totals.total]

\* generateQuotePDF, "Calculate totals" and the HTML content
GenerateDocument(quote) ==
  GenerateHTMLTemplate(quote, SummaryTotals(quote.items, FloatOrZero(quote.discount)))

\* The quotes handed to the generator: items as the editor keeps them, a discount,
\* and a template_variant that is one of the five, unknown, empty or missing
RenderItems ==
  { Recalculate([NewItem EXCEPT !.description = "d1", !.unit_price = price,
                                !.needed_quantity = needed, !.owned_quantity = owned]) :
      price \in {FloatZero, Normalize(1, 0 - 1)}, needed \in {1, 2}, owned \in {0, 1} }

RenderLists == UNION {[1..n -> RenderItems] : n \in 0..MaxItems}

TemplateVariants ==
  {"variant_a", "variant_b", "variant_c", "variant_d", "variant_e",
   "variant_z", "VARIANT_C", "", NullStr}

KnownVariants == {"variant_a", "variant_b", "variant_c", "variant_d", "variant_e"}

RenderQuotes ==
  [items : RenderLists, discount : {FloatZero, FloatOf(50)},
   template_variant : TemplateVariants]

\* generateQuotePDF once the access and tracking requests are answered: the totals
\* and the document
RenderDocument ==
  /\ doc' = GenerateDocument(editor)
  /\ resp' = [op |-> "generateDocument"]
  /\ UNCHANGED <<users, dbState, hist, reqs, calls, flow, quotes, items,
                 clock, companies, creates, editor, stripe>>

InitRender ==
  /\ dbState = "up"
  /\ users = [u \in UserIds |-> DefaultRow("user", NullStr, NullStr)]
  /\ quotes = NoQuotes
  /\ items = NoQuotes
  /\ editor \in RenderQuotes
  /\ doc = NoDoc
  /\ resp = NoRequest
  /\ hist = [u \in UserIds |-> NoHist(users[u])]
  /\ reqs = IdleSlots
  /\ calls = NoCalls
  /\ flow = IdleFlow
  /\ CodesUnused /\ StripeUnused

NextRender == RenderDocument

SpecRender == InitRender /\ [][NextRender]_vars

\* C15: a template_variant that is none of variant_a .. variant_e (empty and missing
\* included) is rendered with the palette of the classic variant (variant_a) and the
\* light colour scheme, and the rendering completes.
C15_UnknownVariantRendersClassic ==
  (doc.emitted /\ editor.template_variant \notin KnownVariants) =>
    /\ doc.colors = GetTemplateColors("variant_a")
    /\ doc.colors = ClassicColors
    /\ ~doc.isDarkTheme
    /\ doc.color = "#333"
    /\ doc.background = "white"

\* C15 witness: documents rendered for an unknown, an empty and a missing variant
C15_Witness ==
  /\ doc.emitted
  /\ editor.template_variant \in {"variant_z", "", NullStr}
  /\ doc.colors.main = "#2563eb"
  /\ Len(doc.rows) = 1

\* C16: a quote without items and without discount has subtotal 0 and total 0, and
\* the items table of its document has a (placeholder) row.
C16_EmptyQuotePlaceholderRow ==
  (doc.emitted /\ editor.items = <<>> /\ editor.discount = FloatZero) =>
    /\ doc.subtotal = FloatZero
    /\ doc.total = FloatZero
    /\ Len(doc.rows) > 0

\* C17: a row carries the savings annotation exactly when the item's owned_quantity
\* is above 0, whatever the unit price, and the amount is owned_quantity * unit_price.
C17_SavingsShownWhenOwned ==
  doc.emitted =>
    \A i \in 1..Len(doc.rows) :
      /\ (doc.rows[i].economia # <<>>) <=> (editor.items[i].owned_quantity > 0)
      /\ doc.rows[i].economia # <<>> =>
           doc.rows[i].economia[1] =
             FloatMul(FloatOf(editor.items[i].owned_quantity), editor.items[i].unit_price)

----------------------------------------------------------------------------
(* The client's generateQuotePDF: check-pdf-access, track-pdf-download,            *)
(* Company.list, then rendering. Each request is handled by the server when the    *)
(* client makes it; the database may fail or recover between the steps.            *)

\* GET /api/admin/companies
AdminCompaniesResponse(db, user) ==
  IF StorageError(db) # ""
    THEN [status |-> 500, body |-> [message |-> "Failed to fetch companies"]]
  ELSE IF AdminAccessRequired(user)
    THEN [status |-> 403, body |-> [message |-> "Admin access required"]]
  ELSE [status |-> 200, body |-> [companies |-> "list"]]

\* response.ok
Ok(status) == status \in 200..299

\* The catch block's result
FlowError ==
  [success |-> FALSE, message |-> "Erro ao gerar PDF. Tente novamente."]

FlowDone(u, fdu0, result) ==
  [pc |-> "done", user |-> u, fdu0 |-> fdu0, result |-> result]

\* generateQuotePDF is called: fetch('/api/check-pdf-access'). net = FALSE: fetch rejects.
FlowStart(u, net) ==
  /\ flow.pc = "idle"
  /\ LET r == CheckPdfAccessResponse(dbState, GetUser(users, u))
         fdu0 == IF users[u] = NoRow THEN 0 ELSE users[u].freeDownloadsUsed
     IN flow' =
          IF ~net \/ ~Ok(r.status)
            THEN FlowDone(u, fdu0, FlowError)
          ELSE IF ~r.body.canGenerate
            THEN FlowDone(u, fdu0,
                   [success |-> FALSE, requiresSubscription |-> TRUE,
                    freeDownloadsUsed |-> r.body.freeDownloadsUsed])
          ELSE [pc |-> "track", user |-> u, fdu0 |-> fdu0, access |-> r.body]
  /\ UNCHANGED <<users, dbState, resp, hist, reqs, calls, quotes, items,
                 clock, companies, creates, editor, doc, stripe>>

\* fetch('/api/track-pdf-download', POST)
FlowTrack(net) ==
  /\ flow.pc = "track"
  /\ LET u == flow.user
         r == TrackRequest(dbState, users, u)
     IN IF ~net
          THEN /\ flow' = FlowDone(u, flow.fdu0, FlowError)
               /\ users' = users
          ELSE /\ users' = r.rows
               /\ flow' =
                    IF Ok(r.status)
                      THEN [pc |-> "companies", user |-> u, fdu0 |-> flow.fdu0,
                            access |-> flow.access, track |-> r.body]
                    ELSE IF r.status = 402 /\ r.body.code = "SUBSCRIPTION_REQUIRED"
                      THEN FlowDone(u, flow.fdu0,
                             [success |-> FALSE, requiresSubscription |-> TRUE,
                              freeDownloadsUsed |-> r.body.freeDownloadsUsed])
                    ELSE FlowDone(u, flow.fdu0, FlowError)
  /\ UNCHANGED <<dbState, resp, hist, reqs, calls, quotes, items,
                 clock, companies, creates, editor, doc, stripe>>

\* Company.list(): apiRequest("GET", "/api/admin/companies"). net = FALSE: the request
\* fails. apiRequest (lib/queryClient) is not among the sources: whether it rejects on
\* a status that is not ok is left open (rejects).
FlowCompanyList(net, rejects) ==
  /\ flow.pc = "companies"
  /\ LET r == AdminCompaniesResponse(dbState, GetUser(users, flow.user))
     IN flow' =
          IF ~net \/ (~Ok(r.status) /\ rejects)
            THEN FlowDone(flow.user, flow.fdu0, FlowError)
            ELSE [pc |-> "render", user |-> flow.user, fdu0 |-> flow.fdu0,
                  access |-> flow.access, track |-> flow.track]
  /\ UNCHANGED <<users, dbState, resp, hist, reqs, calls, quotes, items,
                 clock, companies, creates, editor, doc, stripe>>

\* The totals, generateHTMLTemplate, window.open and the result; the quote is the
\* one the editor holds
FlowRender ==
  /\ flow.pc = "render"
  /\ flow' = FlowDone(flow.user, flow.fdu0,
               [success |-> TRUE,
                isFreeTrial |-> flow.access.isFreeTrial,
                freeDownloadsUsed |-> flow.track.freeDownloadsUsed,
                message |-> flow.track.message])
  /\ doc' = GenerateDocument(editor)
  /\ UNCHANGED <<users, dbState, resp, hist, reqs, calls, quotes, items,
                 clock, companies, creates, editor, stripe>>

\* The caller has the result; generateQuotePDF may be called again
FlowReturn ==
  /\ flow.pc = "done"
  /\ flow' = IdleFlow
  /\ UNCHANGED <<users, dbState, resp, hist, reqs, calls, quotes, items,
                 clock, companies, creates, editor, doc, stripe>>

InitClient ==
  /\ dbState \in {"up", "unset"}
  /\ users \in [UserIds -> ConcRows \cup {NoRow}]
  /\ users["u2"] \in {NoRow, DefaultRow("user", NullStr, NullStr)}
  /\ dbState = "unset" => users = [u \in UserIds |-> NoRow]
  /\ resp = NoRequest
  /\ hist = [u \in UserIds |-> NoHist(users[u])]
  /\ reqs = IdleSlots
  /\ calls = NoCalls
  /\ flow = IdleFlow
  /\ CodesUnused /\ EditorUnused /\ StripeUnused
  /\ quotes = NoQuotes
  /\ items = NoQuotes

NextClient ==
  \/ \E u \in UserIds, net \in BOOLEAN : FlowStart(u, net)
  \/ \E net \in BOOLEAN : FlowTrack(net)
  \/ \E net \in BOOLEAN, rejects \in BOOLEAN : FlowCompanyList(net, rejects)
  \/ FlowRender
  \/ FlowReturn
  \/ DbFail
  \/ DbRecover

SpecClient == InitClient /\ [][NextClient]_vars

----------------------------------------------------------------------------
(* Properties of the client flow (SpecClient) *)

\* C7: generateQuotePDF advances the trial counter only when a document is produced:
\* a flow that ends with success = false leaves freeDownloadsUsed as it was when the
\* flow started, and a flow of a trial user that ends with success = true advanced
\* it exactly once.
C7_CounterAdvancedOnlyWithDocument ==
  (flow.pc = "done" /\ users[flow.user] # NoRow) =>
    IF flow.result.success
      THEN flow.result.isFreeTrial =>
             users[flow.user].freeDownloadsUsed = flow.fdu0 + 1
      ELSE users[flow.user].freeDownloadsUsed = flow.fdu0

----------------------------------------------------------------------------
(* Properties of POST /webhook/stripe, checked under Spec *)

\* The users an invoice.payment_succeeded event names: those whose stored
\* stripeSubscriptionId is the invoice's subscription id
PaidUsers(rows, ev) ==
  IF ev.type = "invoice.payment_succeeded" /\ ev.subscription # NullStr
    THEN FindBySubscription(rows, ev.subscription)
    ELSE {}

\* C18: every event that passes signature verification is answered 200
\* {received: true}, whatever its type, whether or not a user matches and also
\* when storage throws; and after an invoice.payment_succeeded event whose
\* subscription id is a user's stripeSubscriptionId, that user's
\* hasActiveSubscription is true.
C18_VerifiedEventAcknowledgedAndPaidUserActive ==
  [][\A ev \in StripeEvents :
       StripeWebhook(ev, TRUE) =>
         /\ resp'.status = 200
         /\ resp'.body = [received |-> TRUE]
         /\ \A u \in PaidUsers(users, ev) :
              users'[u].hasActiveSubscription]_vars

----------------------------------------------------------------------------
(* POST /api/get-or-create-subscription *)

\* The Stripe calls of the route that may throw; "none": every call succeeds
StripeFailures ==
  {"none", "customers.create", "subscriptions.create", "subscriptions.retrieve"}

\* Ids Stripe gives the objects it creates
NewCustomerId(st) == "cus_" \o ToString(Len(st.customers) + 1)

NewSubscriptionId(st) == "sub_" \o ToString(Len(st.subscriptions) + 1)

\* stripe.customers.create({ email, name })
CustomersCreate(st, email) ==
  [st EXCEPT !.customers = Append(@, [id |-> NewCustomerId(st), email |-> email])]

\* stripe.subscriptions.create({ customer, items, ... })
SubscriptionsCreate(st, cus) ==
  [st EXCEPT !.subscriptions = Append(@, [id |-> NewSubscriptionId(st), customer |-> cus])]

\* stripe.subscriptions.retrieve(id): the subscriptions of the account with this id
SubscriptionsRetrieve(st, id) ==
  {i \in DOMAIN st.subscriptions : st.subscriptions[i].id = id}

\* updateUserStripeInfo: stripeCustomerId is always written, stripeSubscriptionId
\* only when one is passed
UpdateUserStripeInfo(rows, userId, cus, sub) ==
  IF rows[userId] = NoRow THEN rows
  ELSE IF sub # NullStr
    THEN [rows EXCEPT ![userId].stripeCustomerId = cus,
                      ![userId].stripeSubscriptionId = sub]
  ELSE [rows EXCEPT ![userId].stripeCustomerId = cus]

\* payment_intent?.client_secret of the latest invoice
ClientSecret(subscriptionId) == <<"secret", subscriptionId>>

\* The route: hasEmail says whether the session's claims carry an email, fails which
\* Stripe call throws, paymentIntent whether the latest invoice has a payment intent.
\* The result is the users table, the Stripe account and the response.
GetOrCreateSubscriptionResult(db, rows, st, u, hasEmail, fails, paymentIntent) ==
  LET user == GetUser(rows, u)
      cus == NewCustomerId(st)
      st1 == CustomersCreate(st, Email(u))
      rows1 == UpdateUserStripeInfo(rows, u, cus, NullStr)
      sub == NewSubscriptionId(st1)
      st2 == SubscriptionsCreate(st1, cus)
      rows2 == UpdateUserStripeInfo(rows1, u, cus, sub)
  IN
  IF ~st.configured
    THEN [rows |-> rows, stripe |-> st, status |-> 503,
          body |-> [error |-> "Stripe is not configured"]]
  ELSE IF StorageError(db) # ""
    THEN [rows |-> rows, stripe |-> st, status |-> 500,
          body |-> [error |-> "Internal server error"]]
  ELSE IF user = NoRow \/ ~hasEmail
    THEN [rows |-> rows, stripe |-> st, status |-> 400,
          body |-> [error |-> "User not found"]]
  ELSE IF user.stripeSubscriptionId # NullStr
    THEN IF \/ fails = "subscriptions.retrieve"
            \/ SubscriptionsRetrieve(st, user.stripeSubscriptionId) = {}
           THEN [rows |-> rows, stripe |-> st, status |-> 500,
                 body |-> [error |-> "Internal server error"]]
           ELSE [rows |-> rows, stripe |-> st, status |-> 200,
                 body |-> [subscriptionId |-> user.stripeSubscriptionId,
                           clientSecret |->
                             IF paymentIntent
                               THEN ClientSecret(user.stripeSubscriptionId)
                               ELSE <<NullStr>>]]
  ELSE IF fails = "customers.create"
    THEN [rows |-> rows, stripe |-> st, status |-> 400,
          body |-> [error |-> "customers.create failed"]]
  ELSE IF fails = "subscriptions.create"
    THEN [rows |-> rows1, stripe |-> st1, status |-> 400,
          body |-> [error |-> "subscriptions.create failed"]]
  ELSE [rows |-> rows2, stripe |-> st2, status |-> 200,
        body |-> IF paymentIntent
                   THEN [subscriptionId |-> sub, clientSecret |-> ClientSecret(sub)]
                   ELSE [subscriptionId |-> sub]]

GetOrCreateSubscription(u, hasEmail, fails, paymentIntent) ==
  LET r == GetOrCreateSubscriptionResult(dbState, users, stripe, u, hasEmail, fails,
                                         paymentIntent) IN
  /\ Len(stripe.customers) < MaxCustomers
  /\ users' = r.rows
  /\ stripe' = r.stripe
  /\ resp' = [op |-> "subscribe", user |-> u, status |-> r.status, body |-> r.body]
  /\ hist' = HistAfter(users')
  /\ UNCHANGED <<dbState, reqs, calls, flow, quotes, items,
                 clock, companies, creates, editor, doc>>

\* Users that logged in or not, none with a Stripe customer yet; STRIPE_SECRET_KEY
\* set or not
InitStripe ==
  /\ dbState = "up"
  /\ users \in [UserIds -> InitRows]
  /\ stripe \in {[NoStripe EXCEPT !.configured = c] : c \in BOOLEAN}
  /\ resp = NoRequest
  /\ hist = [u \in UserIds |-> NoHist(users[u])]
  /\ reqs = IdleSlots
  /\ calls = NoCalls
  /\ flow = IdleFlow
  /\ CodesUnused /\ EditorUnused
  /\ quotes = NoQuotes
  /\ items = NoQuotes

NextStripe ==
  \/ \E u \in UserIds, hasEmail \in BOOLEAN, fails \in StripeFailures,
        paymentIntent \in BOOLEAN :
       GetOrCreateSubscription(u, hasEmail, fails, paymentIntent)
  \/ \E u \in UserIds : Login(u)
  \/ DbFail
  \/ DbRecover

SpecStripe == InitStripe /\ [][NextStripe]_vars

\* The Stripe customers the route created for a user
CustomersOf(st, u) ==
  {i \in DOMAIN st.customers : st.customers[i].email = Email(u)}

\* C19: across every sequence of calls for a user, including calls in which the
\* subscription creation fails after the customer was created: a successful call
\* returns a subscriptionId and a clientSecret; a user with a stored
\* stripeSubscriptionId gets that subscription back and nothing is created in
\* Stripe; and Stripe holds at most one customer for the user.
C19_OneCustomerAndExistingSubscriptionReturned ==
  [][\A u \in UserIds :
       (resp'.op = "subscribe" /\ resp'.user = u) =>
         /\ resp'.status = 200 =>
              /\ DOMAIN resp'.body = {"subscriptionId", "clientSecret"}
              /\ resp'.body.clientSecret # <<NullStr>>
         /\ (users[u] # NoRow /\ users[u].stripeSubscriptionId # NullStr) =>
              /\ stripe' = stripe
              /\ resp'.status = 200 =>
                   resp'.body.subscriptionId = users[u].stripeSubscriptionId
         /\ Cardinality(CustomersOf(stripe', u)) <= 1]_vars

----------------------------------------------------------------------------
(* The discount input and the save of the editor *)

\* Texts typed into the discount input; min="0" max="100" are attributes of the
\* input, the change handler receives whatever was typed
DiscountTexts ==
  {<<>>, <<"0">>, <<"5", "0">>, <<"1", "0", "0">>, <<"2", "0", "0">>, <<"-", "5">>}

\* onChange of the discount input: onDiscountChange(parseFloat(e.target.value) || 0)
DiscountInput(text) == DiscountChange(ParseFloatOrZero(text))

\* Mutant: the save takes the discount as a fraction, not as a percentage
SaveData_discountAsFraction(data) ==
  LET subtotal == Subtotal(data.items) IN
  [ discount |-> data.discount,
    templateVariant |-> data.template_variant,
    subtotal |-> subtotal,
    total |-> FloatSub(subtotal, FloatMul(subtotal, FloatOrZero(data.discount))) ]

\* saveData of saveMutation. Number.prototype.toString gives the shortest decimal that
\* reads back as the same number: a text is held as the number it denotes.
SaveData(data) ==
  LET subtotal == Subtotal(data.items) IN
  [ discount |-> data.discount,
    templateVariant |-> data.template_variant,
    subtotal |-> subtotal,
    total |-> FloatSub(subtotal,
                FloatDiv(FloatMul(subtotal, FloatOrZero(data.discount)), FloatOf(100))) ]

\* handleSave with a title: saveMutation.mutate(quoteData)
Save ==
  /\ resp' = [op |-> "save", body |-> SaveData(editor)]
  /\ UNCHANGED <<users, dbState, hist, reqs, calls, flow, quotes, items,
                 clock, companies, creates, editor, doc, stripe>>

NextDiscount ==
  \/ \E text \in DiscountTexts : DiscountInput(text)
  \/ RenderSummary
  \/ Save

SpecDiscount == InitSummary /\ [][NextDiscount]_vars

InRange(x, lo, hi) == FloatLeq(lo, x) /\ FloatLeq(x, hi)

\* C21: in every state of the editor and in every quote sent by save the discount
\* is within [0, 100], and the total displayed and the total saved are neither
\* negative nor above the subtotal.
C21_DiscountWithinZeroAndHundred ==
  /\ InRange(editor.discount, FloatZero, FloatOf(100))
  /\ doc.emitted => InRange(doc.total, FloatZero, doc.subtotal)
  /\ resp.op = "save" =>
       /\ InRange(resp.body.discount, FloatZero, FloatOf(100))
       /\ InRange(resp.body.total, FloatZero, resp.body.subtotal)

----------------------------------------------------------------------------
(* Property of the item quantities, checked under SpecItems *)

\* C22: after every sequence of item edits (raising owned_quantity, lowering
\* needed_quantity below owned_quantity), every item has
\* 0 <= owned_quantity <= needed_quantity.
C22_OwnedWithinNeeded ==
  \A i \in 1..Len(editor.items) :
    /\ 0 <= editor.items[i].owned_quantity
    /\ editor.items[i].owned_quantity <= editor.items[i].needed_quantity

----------------------------------------------------------------------------
(* The cached subscription flag after billing notifications, checked under Spec *)

\* The users a notification is about: by customer for subscription events, by
\* subscription for invoice events
NotifiedUsers(rows, ev) ==
  IF ev.type = "invoice.payment_succeeded"
    THEN PaidUsers(rows, ev)
    ELSE FindByCustomer(rows, ev.customer)

\* What the notification says about the subscription: active or not
IsActivation(ev) ==
  \/ ev.type = "invoice.payment_succeeded"
  \/ /\ ev.type \in {"customer.subscription.created", "customer.subscription.updated"}
     /\ ev.status \in {"active", "trialing"}

\* C23: after a billing notification the webhook processed for a user (storage
\* working), the hasActiveSubscription the gate reads is true when the notification
\* was an activation (subscription created or updated as active or trialing, invoice
\* paid) and false when it was a deactivation (any other status, or a subscription
\* deletion); and the gate's requests never touch the billing provider.
C23_FlagReflectsLastNotification ==
  [][/\ \A ev \in StripeEvents :
          (StripeWebhook(ev, TRUE) /\ dbState = "up") =>
            \A u \in NotifiedUsers(users, ev) :
              users'[u].hasActiveSubscription = IsActivation(ev)
     /\ resp'.op \in {"track", "check"} => stripe' = stripe]_vars

----------------------------------------------------------------------------
(* Property of the item routes, checked under SpecQuotes *)

\* C24: a PUT or DELETE /api/quotes/:quoteId/items/:itemId changes only an item of
\* the quote :quoteId whose ownership was checked; so a requester who is not an admin
\* never changes or deletes an item of a quote created by another user.
C24_ItemBelongsToCheckedQuote ==
  [][resp'.op \in {"PUT item", "DELETE item"} =>
       \A i \in ItemIds :
         items'[i] # items[i] =>
           /\ items[i].quoteDraftId = resp'.quote
           /\ OwnerOrAdmin(resp'.user, items[i].quoteDraftId)]_vars

----------------------------------------------------------------------------
(* The read-only check against the gate, checked under Spec *)

\* A POST /api/track-pdf-download made now by u would consume the trial: it is let
\* through and the handler increments the counter
WouldConsumeTrial(u) ==
  /\ RequireSubscriptionOrFreeTrial(dbState, GetUser(users, u)).next
  /\ TrackRequest(dbState, users, u).rows # users

\* C25: in every user state GET /api/check-pdf-access answers canGenerate = true
\* exactly when requireSubscriptionOrFreeTrial would let a POST
\* /api/track-pdf-download made in the same state through, and isFreeTrial = true
\* exactly when that request would consume the trial.
C25_CheckAgreesWithGate ==
  \A u \in UserIds :
    LET check == CheckPdfAccessResponse(dbState, GetUser(users, u))
        gate == RequireSubscriptionOrFreeTrial(dbState, GetUser(users, u))
    IN IF check.status = 200
         THEN /\ check.body.canGenerate = gate.next
              /\ check.body.isFreeTrial = WouldConsumeTrial(u)
         ELSE ~gate.next

----------------------------------------------------------------------------
(* The three computations of a quote's totals *)

\* Items the editor holds: a price with up to MantissaBits significand bits and a
\* quantity to buy
TotalsItems ==
  { Recalculate([NewItem EXCEPT !.description = "d1", !.unit_price = price,
                                !.needed_quantity = needed]) :
      price \in {Normalize(1, 0 - 1), Normalize(21, 0 - 3)}, needed \in {1, 3} }

TotalsLists == UNION {[1..n -> TotalsItems] : n \in 0..MaxItems}

\* A quote open in the editor, no discount typed yet
InitTotals ==
  /\ dbState = "up"
  /\ users = [u \in UserIds |-> DefaultRow("user", NullStr, NullStr)]
  /\ quotes = NoQuotes
  /\ items = NoQuotes
  /\ editor \in {[NoEditor EXCEPT !.items = list] : list \in TotalsLists}
  /\ doc = NoDoc
  /\ resp = NoRequest
  /\ hist = [u \in UserIds |-> NoHist(users[u])]
  /\ reqs = IdleSlots
  /\ calls = NoCalls
  /\ flow = IdleFlow
  /\ CodesUnused /\ StripeUnused

NextTotals ==
  \/ \E text \in DiscountTexts : DiscountInput(text)
  \/ RenderSummary
  \/ Save
  \/ RenderDocument

SpecTotals == InitTotals /\ [][NextTotals]_vars

\* C26: for the items and the discount the editor holds, the subtotal and total
\* shown by QuoteSummary, those sent by the editor's save and those printed by
\* generateQuotePDF are equal.
C26_TotalsAgree ==
  LET shown == SummaryTotals(editor.items, editor.discount)
      sent == SaveData(editor)
      printed == GenerateDocument(editor)
  IN /\ resp.op = "renderSummary" =>
          /\ doc.subtotal = sent.subtotal /\ doc.total = sent.total
          /\ doc.subtotal = printed.subtotal /\ doc.total = printed.total
     /\ resp.op = "save" =>
          /\ resp.body.subtotal = shown.subtotal /\ resp.body.total = shown.total
          /\ resp.body.subtotal = printed.subtotal /\ resp.body.total = printed.total
     /\ resp.op = "generateDocument" =>
          /\ doc.subtotal = shown.subtotal /\ doc.total = shown.total
          /\ doc.subtotal = sent.subtotal /\ doc.total = sent.total

\* C26 witness: a quote of two items with a discount of 50 was saved, the total
\* computed is not the subtotal, and the subtotal was rounded when summed
C26_Witness ==
  /\ resp.op = "save"
  /\ Len(editor.items) = 2
  /\ editor.discount = FloatOf(50)
  /\ resp.body.total # resp.body.subtotal
  /\ editor.items[1].total # editor.items[2].total

----------------------------------------------------------------------------
(* Logging in again, checked under Spec *)

\* The entitlement columns of a row
Entitlement(row) ==
  <<row.role, row.freeDownloadsUsed, row.hasActiveSubscription,
    row.stripeCustomerId, row.stripeSubscriptionId>>

----------------------------------------------------------------------------
(* Local mode (no DATABASE_URL), checked under Spec *)

\* C28: when storage throws 'DATABASE_URL is not set', GET /api/check-pdf-access
\* answers canGenerate = true and POST /api/track-pdf-download succeeds (it is not
\* answered with an error status).
C28_LocalModeAllowsGeneration ==
  StorageError(dbState) = "DATABASE_URL is not set" =>
    /\ resp.op = "check" => (resp.status = 200 /\ resp.body.canGenerate)
    /\ resp.op = "track" => resp.status < 400

----------------------------------------------------------------------------
(* POST /api/companies, PUT /api/companies/:id *)

CompanyIds == {"c1", "c2"}

CompanyNames == {"n0", "n1"}

\* Request bodies of PUT /api/companies/:id: any column may be named
CompanyBodies ==
  {[name |-> n] : n \in CompanyNames}
  \cup {[subscriptionStatus |-> st] : st \in {"active", "blocked"}}
  \cup {[createdBy |-> Email(u)] : u \in UserIds}

\* delete updateData.id / createdBy / createdAt
CompanyUpdateData(body) ==
  [k \in (DOMAIN body) \ {"id", "createdBy", "createdAt"} |-> body[k]]

\* updateCompany: UPDATE companies SET ...data WHERE id = companyId
UpdateCompany(crows, companyId, data) ==
  {IF c.id = companyId THEN ApplyPartial(c, data) ELSE c : c \in crows}

\* createCompany: INSERT; the id is generated
CreateCompany(crows, id, email, name) == crows \cup {CompanyRow(id, email, name)}

\* POST /api/companies: valid says whether insertCompanySchema.parse accepts the body
PostCompany(u, id, name, valid) ==
  LET ok == StorageError(dbState) = "" /\ valid IN
  /\ \A c \in companies : c.id # id
  /\ companies' = IF ok THEN CreateCompany(companies, id, Email(u), name) ELSE companies
  /\ resp' = [op |-> "POST company", user |-> u, company |-> id,
              status |-> IF ok THEN 200 ELSE 500]
  /\ UNCHANGED <<users, dbState, hist, reqs, calls, flow, quotes, items,
                 clock, creates, editor, doc, stripe>>

\* PUT /api/companies/:id
PutCompany(u, id, body) ==
  LET ok == StorageError(dbState) = "" IN
  /\ companies' = IF ok THEN UpdateCompany(companies, id, CompanyUpdateData(body))
                        ELSE companies
  /\ resp' = [op |-> "PUT company", user |-> u, company |-> id,
              status |-> IF ok THEN 200 ELSE 500]
  /\ UNCHANGED <<users, dbState, hist, reqs, calls, flow, quotes, items,
                 clock, creates, editor, doc, stripe>>

\* u1 is an ordinary user or an admin, u2 an ordinary user; no company yet
InitCompanies ==
  /\ dbState = "up"
  /\ users \in [UserIds -> {DefaultRow(r, NullStr, NullStr) : r \in {"user", "admin"}}]
  /\ users["u2"].role = "user"
  /\ companies = NoCompanies
  /\ clock = StartOfMonth
  /\ creates = NoCreates
  /\ resp = NoRequest
  /\ hist = [u \in UserIds |-> NoHist(users[u])]
  /\ reqs = IdleSlots
  /\ calls = NoCalls
  /\ flow = IdleFlow
  /\ quotes = NoQuotes
  /\ items = NoQuotes
  /\ EditorUnused /\ StripeUnused

NextCompanies ==
  \/ \E u \in UserIds, id \in CompanyIds, name \in CompanyNames, valid \in BOOLEAN :
       PostCompany(u, id, name, valid)
  \/ \E u \in UserIds, id \in CompanyIds, body \in CompanyBodies : PutCompany(u, id, body)
  \/ DbFail
  \/ DbRecover

SpecCompanies == InitCompanies /\ [][NextCompanies]_vars

\* The requester created the company, or is an admin
CreatorOrAdmin(u, c) ==
  c.createdBy = Email(u) \/ (users[u] # NoRow /\ users[u].role = "admin")

\* C29: a PUT /api/companies/:id by an authenticated user who did not create
\* company :id and is not an admin leaves that company unchanged.
C29_CompanyChangedOnlyByCreatorOrAdmin ==
  [][resp'.op = "PUT company" =>
       \A c \in companies :
         (c.id = resp'.company /\ ~CreatorOrAdmin(resp'.user, c)) => c \in companies']_vars

----------------------------------------------------------------------------
(* Banned users, checked under Spec *)

\* C30: while a user's role is 'banned' (set by an admin through
\* PUT /api/admin/users/:id), the user's document-generation requests are refused:
\* GET /api/check-pdf-access does not answer canGenerate = true and
\* POST /api/track-pdf-download is answered with an error status.
C30_BannedUserRefused ==
  (/\ resp.op \in {"check", "track"}
   /\ users[resp.user] # NoRow
   /\ users[resp.user].role = "banned") =>
    IF resp.op = "check"
      THEN resp.status # 200 \/ ~resp.body.canGenerate
      ELSE resp.status >= 400

=============================================================================
